---- MODULE Spec2Model ----
(***************************************************************************)
(* Verification model of the meeting client (VotingM7011E/Frontend).       *)
(*                                                                         *)
(* The client is a set of React views that keep local copies of resources  *)
(* owned by collaborator services: they pull snapshots over HTTP, receive  *)
(* push events over Socket.IO and send mutations.  Every network call is a *)
(* suspension point: the collaborator answers when the call is issued and  *)
(* the answer is applied by a later step, so answers and events interleave *)
(* in any order.                                                           *)
(*                                                                         *)
(* Specifications, one per view and resource:                              *)
(*   SpecMotionList  MotionManager, the motion list  (src/unnamed/part_006)*)
(*   SpecMotionPoll  MotionManager, the voting session and its timers      *)
(*   SpecVote        VoteManager                     (src/unnamed/part_004)*)
(*   SpecElectionInit   ElectionManager, two instances initializing the    *)
(*                      positions of an item         (src/unnamed/part_007)*)
(*   SpecElectionClose  ElectionManager, nominations and closing           *)
(*   SpecMeeting     MeetingRoom   (src/src/pages/Meeting/MeetingRoom.tsx) *)
(*   SpecMotionStart MotionManager, Start Voting on a list that fills      *)
(*   SpecMotionEdit  MotionManager, editing a motion while voting starts   *)
(*   SpecVoteManager VoteManager as rendered for a manager or a viewer     *)
(*   SpecBallot      VoteManager, the ballot and its handlers              *)
(*   SpecElectionViewer ElectionManager, the controls by capability        *)
(*   SpecElectionLife   ElectionManager, one position from open to closed  *)
(*   SpecVotePermission the 'vote' role and the views that offer a ballot  *)
(*   SpecMotionResult   MotionManager, the result badge of a poll          *)
(*   SpecMotionCreate   MotionManager, the new-motion form                 *)
(*   SpecMeetingChannel MeetingRoom and SocketService, reconnection, token *)
(*   SpecMeetingPull    MeetingRoom once the channel has given up (fair)   *)
(*   SpecCapability     MeetingRoom and MotionManager, the role lookups    *)
(*   SpecIdentity       MeetingRoom while the signed-in user changes       *)
(*   SpecMutation       the mutating actions of the four views             *)
(*   SpecMotionItems    MotionManager moved to another item mid-request    *)
(*   SpecElectionItems  ElectionManager reused for the next election item  *)
(*   SpecElectionPull   ElectionManager with push events lost (fair)       *)
(*   SpecMotionWatch    MotionManager, the 5 s poll check (fair)           *)
(*   SpecMeetingRejoin  MeetingRoom's room across a reconnection           *)
(*   SpecTokenRefresh   KeycloakService, the 30 s token refresh task       *)
(***************************************************************************)
EXTENDS Integers, Sequences, FiniteSets, TLC

\* ------------------------------------------------------------------ bounds
MaxMotions == 2        \* motions the motion service ever holds
MaxInFlight == 2       \* answers the motion view awaits while timers run
MaxPolls == 1          \* polls of one voting session
MaxVoteCalls == 2      \* answers VoteManager awaits at a time
MaxPositions == 2      \* positions the election service ever holds
MaxElCalls == 2        \* answers the election views await besides initialization
MaxItems == 2          \* agenda items of the meeting
MaxTally == 3          \* votes one option of a poll collects
MaxSockets == 2        \* sockets the meeting channel opens
MaxMeetCalls == 3      \* answers MeetingRoom awaits when the identity changes
MaxStale == 1          \* answers still awaited for a motion item when the view leaves it

\* --------------------------------------------------------------- constants
Items == {"A", "B"}
currentUsername == "me"
NoPoll == 0
NoMotion == 0
NoSession == "none"
NoItem == "-"
PollIds == {1, 2}
Options == {"yes", "no"}
Names == <<"President", "Treasurer">>
Insts == {"list", "current"}
Users == {"ann", "bob"}
Unset == -1
NoMeeting == [current_item |-> Unset, items |-> Unset]

VARIABLES
  \* collaborator: motion service
  srvMotions,          \* motion item -> sequence of Motion
  srvSession,          \* motion item -> voting_session.state, or NoSession
  srvPoll,             \* motion item -> its poll
  motionEvents,        \* events the motion service has emitted (never consumed:
                       \* the channel may deliver each any number of times)
  motionCalls,         \* answers to MotionManager's calls, not yet applied
  \* MotionManager
  mounted,             \* "no" before mount, "yes", "gone" after unmount
  motionItemId,        \* prop
  hasManagePermission, \* prop
  motions,
  motionError,
  votingSessionState,
  activePollId,
  votingActive,
  interval,            \* item the live setInterval(checkForPoll) closes over
  timeouts,            \* pending setTimeout callbacks of handleStartVoting
  \* history
  viaEvent,            \* uuids whose local entry an event handler placed
  dupSeen              \* a motion_added event for a uuid already listed was handled

VARIABLES
  \* collaborator: voting service
  srvVoted,            \* polls the authenticated user has a recorded vote on
  voteCalls,           \* answers to VoteManager's calls, not yet applied
  \* VoteManager
  voteMounted,         \* "no" before mount, "yes", "gone" after unmount
  pollId,              \* prop
  poll,                \* poll_uuid of the loaded Poll, or NoPoll
  voteLoading,
  voteError,
  selectedOption,
  rankedOptions,
  hasVoted,
  submitting,
  \* history
  votedHere,           \* polls a submitVote of this VoteManager succeeded for
  loadVoted            \* the user had voted on pollId when its load began

motionVars == <<srvMotions, srvSession, srvPoll, motionEvents, motionCalls,
                mounted, motionItemId, hasManagePermission, motions, motionError,
                votingSessionState, activePollId, votingActive, interval, timeouts,
                viaEvent, dupSeen>>

VARIABLES
  \* collaborator: election service, for one (meeting_id, agenda_item_id)
  srvPositions,        \* sequence of Position
  srvNominations,      \* position_id -> username -> "none", "pending", "accepted"
  elEvents,            \* events the election service has emitted
  elCalls,             \* answers to the ElectionManagers' calls, not yet applied
  \* ElectionManager: the instance MeetingRoom renders in the agenda list and
  \* the one CurrentAgendaItem renders for a viewer without manage
  elMounted,           \* instance -> BOOLEAN
  elListeners,         \* instances whose socket handlers are registered
  createdPositions,    \* instance -> sequence of Position
  nominations,         \* instance -> position_id -> username -> status
  elLoading,           \* instance -> BOOLEAN
  elError,             \* instance -> error text
  initializingRef,     \* instance -> BOOLEAN
  \* history
  rejectedExisting     \* instance -> a create of it was rejected as existing

VARIABLES
  \* collaborator: meeting service and permission service
  srvMeeting,          \* [current_item, items]: the index, or Unset, and the
                       \* number of agenda items
  srvManage,           \* the user's roles for the meeting include 'manage'
  meetEvents,          \* meeting_updated events emitted
  meetCalls,           \* answers to MeetingRoom's calls, not yet applied
  \* MeetingRoom
  roomMounted,
  meeting,             \* NoMeeting or the meeting last stored
  meetLoading,
  meetError,
  roomManagePermission \* MeetingRoom's hasManagePermission

voteVars == <<srvVoted, voteCalls, voteMounted, pollId, poll, voteLoading, voteError,
              selectedOption, rankedOptions, hasVoted, submitting, votedHere,
              loadVoted>>

electionVars == <<srvPositions, srvNominations, elEvents, elCalls, elMounted,
                  elListeners, createdPositions, nominations, elLoading, elError,
                  initializingRef, rejectedExisting>>

meetingVars == <<srvMeeting, srvManage, meetEvents, meetCalls, roomMounted, meeting,
                 meetLoading, meetError, roomManagePermission>>

VARIABLES
  \* collaborators: identity provider and permission service
  srvRoles,            \* the user's roles for the meeting
  userCalls,           \* answers to getUserProfile / getUserRoles, not yet applied
  \* MotionManager and each ElectionManager
  viewUsername,        \* view -> its currentUsername state, '' until resolved
  hasVotePermission    \* view -> BOOLEAN

VARIABLES
  \* MotionManager, the edit form
  editingMotionId,     \* motion_uuid under edit, or NoMotion
  editMotionText

VARIABLES
  \* MotionManager, the results of finished polls
  pollHistory,         \* records of voting_session.poll_history
  motionResult         \* motion_uuid -> the badge rendered: "", "passed", "failed"

VARIABLES
  \* SocketService, the meeting channel, and the identity provider's token
  channel,             \* [socket: this.socket, status: socket -> its state,
                       \*  auth: socket -> the token its handshake carries]
  tokenStale           \* the access token KeycloakService holds has expired

userVars == <<srvRoles, userCalls, viewUsername, hasVotePermission>>

channelVars == <<channel, tokenStale>>

VARIABLES
  \* AuthContext
  authUser             \* auth.user?.username, or NoUser

authVars == <<authUser>>

VARIABLES
  \* the agenda item of the election view and of the collaborator's positions
  agendaItemIndex,     \* the agendaItemIndex prop of the CurrentAgendaItem instance
  srvItemOf            \* position id -> index of the agenda item it was created for

itemVars == <<agendaItemIndex, srvItemOf>>

VARIABLES
  \* the meeting's room at the collaborator
  joinState            \* socket -> what became of the 'join' emitted on it

roomVars == <<joinState>>

VARIABLES
  \* KeycloakService, the 30 s refresh task
  refreshCalls,        \* outcomes of keycloak.updateToken(60) the task awaits
  loginInvoked         \* the task has called this.login()

tokenVars == <<refreshCalls, loginInvoked>>

\* State the later parts of the model add.
extraVars == <<itemVars, roomVars, tokenVars>>

resultVars == <<pollHistory, motionResult>>

\* State outside the five views' own resources.
auxVars == <<resultVars, channelVars, authVars, extraVars>>

editVars == <<editingMotionId, editMotionText>>

vars == <<motionVars, voteVars, electionVars, meetingVars, userVars, editVars, auxVars>>

\* What the steps of one view leave alone: the other views and their
\* collaborators.
motionPeers == <<voteVars, electionVars, meetingVars, auxVars>>

otherThanMotion == <<motionPeers, userVars, editVars>>

otherThanVote == <<motionVars, electionVars, meetingVars, userVars, editVars, auxVars>>

electionPeers == <<motionVars, voteVars, meetingVars, editVars, auxVars>>

otherThanElection == <<electionPeers, userVars>>

otherThanMeeting == <<motionVars, voteVars, electionVars, userVars, editVars, auxVars>>

otherThanUser == <<motionVars, voteVars, electionVars, meetingVars, editVars, auxVars>>

\* The views that resolve the user and the vote capability.
Views == {"motion"} \cup Insts

\* The views before the user is resolved; the roles follow MeetingRoom's
\* collaborator.
InitUserIdle ==
  /\ srvRoles = IF srvManage THEN {"manage"} ELSE {}
  /\ userCalls = {}
  /\ viewUsername = [v \in Views |-> ""]
  /\ hasVotePermission = [v \in Views |-> FALSE]

\* No motion is under edit.
InitEditIdle ==
  /\ editingMotionId = NoMotion
  /\ editMotionText = ""

\* No poll has finished.
InitResultIdle ==
  /\ pollHistory = <<>>
  /\ motionResult = [u \in 1 .. MaxMotions |-> ""]

\* ------------------------------------------------- SocketService, the channel
SocketIds == 1 .. MaxSockets

NoSocket == 0

\* No socket was created: this.socket is null.
NoChannel ==
  [socket |-> NoSocket,
   status |-> [s \in SocketIds |-> "unused"],
   auth |-> [s \in SocketIds |-> "none"]]

\* The service has made no connection and the token is fresh.
InitChannelIdle ==
  /\ channel = NoChannel
  /\ tokenStale = FALSE

\* auth.user is null.
NoUser == ""

\* The identities a session can have: none, the user, somebody without roles.
AuthUsers == {NoUser, currentUsername, "guest"}

\* The user is signed in.
InitAuthIdle == authUser = currentUsername

\* The election views show the first agenda item, which holds every position.
InitItemIdle ==
  /\ agendaItemIndex = 0
  /\ srvItemOf = [q \in 1 .. MaxPositions |-> 0]

\* No 'join' was emitted on any socket.
InitRoomIdle == joinState = [s \in SocketIds |-> "none"]

\* The refresh task awaits nothing and has not redirected.
InitTokenIdle ==
  /\ refreshCalls = {}
  /\ loginInvoked = FALSE

InitExtraIdle == InitItemIdle /\ InitRoomIdle /\ InitTokenIdle

InitAuxIdle ==
  /\ InitResultIdle
  /\ InitChannelIdle
  /\ InitAuthIdle
  /\ InitExtraIdle

\* this.socket?.connected
SocketConnected(ch) ==
  ch.socket # NoSocket /\ ch.status[ch.socket] = "connected"

\* The sockets that are open or opening.
LiveSockets(ch) == {s \in SocketIds : ch.status[s] \in {"opening", "connected"}}

SocketsMade(ch) == Cardinality({s \in SocketIds : ch.status[s] # "unused"})

\* KeycloakService.getToken(): the token held, whatever its age.
getToken == IF tokenStale THEN "stale" ELSE "fresh"

\* connect(): returns the socket if it is connected; otherwise io(url, {auth:
\* {token}}) makes a socket that starts its handshake, and this.socket is
\* set to it.  A socket this.socket pointed to before is let go as it is.
connect(ch) ==
  IF SocketConnected(ch) THEN ch
  ELSE LET s == SocketsMade(ch) + 1 IN
         [socket |-> s,
          status |-> [ch.status EXCEPT ![s] = "opening"],
          auth |-> [ch.auth EXCEPT ![s] = getToken]]

\* joinMeeting(meetingId): connect() unless connected, then emit 'join'.
joinMeeting(ch) == IF ~SocketConnected(ch) THEN connect(ch) ELSE ch

\* A call of connect() stays within the sockets the model follows.
CanOpen(ch) == SocketConnected(ch) \/ SocketsMade(ch) < MaxSockets

\* The effect of a meeting view: SocketService.connect(); joinMeeting(id).
JoinChannel ==
  /\ CanOpen(channel)
  /\ CanOpen(connect(channel))
  /\ channel' = joinMeeting(connect(channel))
  /\ UNCHANGED tokenStale

\* The view receives what the channel pushes.
ChannelUp == SocketConnected(channel)

\* The handshake of a socket completes.
HandshakeCompletes(s) ==
  /\ channel.status[s] = "opening"
  /\ channel' = [channel EXCEPT !.status[s] = "connected"]
  /\ UNCHANGED tokenStale
  /\ UNCHANGED <<motionVars, voteVars, electionVars, meetingVars, userVars, editVars,
                 resultVars, authVars, extraVars>>

\* The transport of a connected socket closes: the socket reconnects.
TransportCloses(s) ==
  /\ channel.status[s] = "connected"
  /\ channel' = [channel EXCEPT !.status[s] = "opening"]
  /\ UNCHANGED tokenStale
  /\ UNCHANGED <<motionVars, voteVars, electionVars, meetingVars, userVars, editVars,
                 resultVars, authVars, extraVars>>

\* Every one of the reconnectionAttempts of a socket has failed: the socket
\* stays closed.
ReconnectFailed(s) ==
  /\ channel.status[s] = "opening"
  /\ channel' = [channel EXCEPT !.status[s] = "failed"]
  /\ UNCHANGED tokenStale
  /\ UNCHANGED <<motionVars, voteVars, electionVars, meetingVars, userVars, editVars,
                 resultVars, authVars, extraVars>>

\* The access token expires before a refresh has succeeded.
TokenExpires ==
  /\ ~tokenStale
  /\ tokenStale' = TRUE
  /\ UNCHANGED channel
  /\ UNCHANGED <<motionVars, voteVars, electionVars, meetingVars, userVars, editVars,
                 resultVars, authVars, extraVars>>

\* updateToken(minValidity) of the 30 s timer or of an API call succeeds.
updateToken ==
  /\ tokenStale
  /\ tokenStale' = FALSE
  /\ UNCHANGED channel
  /\ UNCHANGED <<motionVars, voteVars, electionVars, meetingVars, userVars, editVars,
                 resultVars, authVars, extraVars>>

\* ------------------------------------------------- MotionManager, poll results
Tallies == {"yes", "no", "abstain"}

\* The results a finished poll can carry: a count for some of the options.
ResultsSets == UNION {[S -> 0 .. MaxTally] : S \in SUBSET Tallies}

PollHistoryRecord(u, results) == [motion_uuid |-> u, results |-> results]

\* result.results[option] || 0
TallyOr0(results, option) == IF option \in DOMAIN results THEN results[option] ELSE 0

\* getMotionResult(motionUuid): the records of the motion, none or the first.
getMotionResult(motionUuid) ==
  SelectSeq(pollHistory, LAMBDA record : record.motion_uuid = motionUuid)

\* A motion passing on at least as many 'yes' as 'no'.
didMotionPassOnTie(result) ==
  TallyOr0(result.results, "yes") >= TallyOr0(result.results, "no")

didMotionPass(result) ==
  TallyOr0(result.results, "yes") > TallyOr0(result.results, "no")

\* checkForPoll stores voting_session.poll_history: the poll of one motion
\* has finished with some results.
SetPollHistory ==
  /\ \E u \in 1 .. MaxMotions : \E results \in ResultsSets :
       pollHistory' = <<PollHistoryRecord(u, results)>>
  /\ motionResult' = [u \in 1 .. MaxMotions |-> ""]
  /\ UNCHANGED <<motionVars, voteVars, electionVars, meetingVars, userVars, editVars,
                 channelVars, authVars, extraVars>>

\* The row of motion u is rendered: a badge when the motion has a record.
RenderMotionResult(u) ==
  /\ motionResult[u] = ""
  /\ Len(getMotionResult(u)) > 0
  /\ motionResult' =
       [motionResult EXCEPT ![u] =
          IF didMotionPass(getMotionResult(u)[1]) THEN "passed" ELSE "failed"]
  /\ UNCHANGED pollHistory
  /\ UNCHANGED <<motionVars, voteVars, electionVars, meetingVars, userVars, editVars,
                 channelVars, authVars, extraVars>>

RenderRows == \E u \in 1 .. MaxMotions : RenderMotionResult(u)

UserCall(v, call, roles) == [view |-> v, call |-> call, roles |-> roles]

\* The mount effect fetchUser() up to `await KeycloakService.getUserProfile()`.
\* The checkVotePermission effect of the same render returns at once:
\* currentUsername is still ''.
fetchUser(v) ==
  /\ userCalls' = userCalls \cup {UserCall(v, "getUserProfile", <<>>)}
  /\ UNCHANGED <<srvRoles, viewUsername, hasVotePermission>>

\* The instance is discarded: its state is gone and the answers it awaited
\* reach no component.
discardUser(v) ==
  /\ userCalls' = {c \in userCalls : c.view # v}
  /\ viewUsername' = [viewUsername EXCEPT ![v] = ""]
  /\ hasVotePermission' = [hasVotePermission EXCEPT ![v] = FALSE]
  /\ UNCHANGED srvRoles

\* MeetingRoom before it is mounted.
InitMeetingLocal ==
  /\ meetEvents = {}
  /\ meetCalls = {}
  /\ roomMounted = FALSE
  /\ meeting = NoMeeting
  /\ meetLoading = TRUE
  /\ meetError = ""
  /\ roomManagePermission = FALSE

InitMeetingIdle ==
  /\ srvMeeting = [current_item |-> Unset, items |-> 0]
  /\ srvManage = FALSE
  /\ InitMeetingLocal

PositionIds == 1 .. MaxPositions

NoNominations == [u \in Users |-> "none"]

\* The ElectionManagers before they are mounted.
InitElectionLocal ==
  /\ elEvents = {}
  /\ elCalls = {}
  /\ elMounted = [i \in Insts |-> FALSE]
  /\ elListeners = {}
  /\ createdPositions = [i \in Insts |-> <<>>]
  /\ nominations = [i \in Insts |-> [q \in PositionIds |-> NoNominations]]
  /\ elLoading = [i \in Insts |-> FALSE]
  /\ elError = [i \in Insts |-> ""]
  /\ initializingRef = [i \in Insts |-> FALSE]
  /\ rejectedExisting = [i \in Insts |-> FALSE]

InitElectionIdle ==
  /\ srvPositions = <<>>
  /\ srvNominations = [q \in PositionIds |-> NoNominations]
  /\ InitElectionLocal

\* VoteManager before it is mounted, the user having no recorded vote.
InitVoteIdle ==
  /\ srvVoted = {}
  /\ voteCalls = {}
  /\ voteMounted = "no"
  /\ pollId = 1
  /\ poll = NoPoll
  /\ voteLoading = TRUE
  /\ voteError = ""
  /\ selectedOption = ""
  /\ rankedOptions = <<>>
  /\ hasVoted = FALSE
  /\ submitting = FALSE
  /\ votedHere = {}
  /\ loadVoted = FALSE

\* ----------------------------------------------------------------- helpers
Uuids == 1 .. MaxMotions

Range(s) == {s[k] : k \in 1 .. Len(s)}

RECURSIVE Count(_, _)
Count(s, u) ==
  IF s = <<>> THEN 0
  ELSE (IF Head(s).motion_uuid = u THEN 1 ELSE 0) + Count(Tail(s), u)

Has(s, u) == \E k \in 1 .. Len(s) : s[k].motion_uuid = u

Entry(s, u) == s[CHOOSE k \in 1 .. Len(s) : s[k].motion_uuid = u]

NoPollRec == [poll_uuid |-> NoPoll, poll_state |-> "none"]

\* A Motion.  Its text is the one it was submitted with or the edited one.
Motion(u, o, t) == [motion_uuid |-> u, owner |-> o, motion |-> t]

AllSrvMotions == UNION {Range(srvMotions[i]) : i \in Items}

\* An answer in flight.  `cont` names the code that awaits it and `item` is
\* the motionItemId its closure captured.
Answer(call, cont, item, ok, data, sess, pl) ==
  [call |-> call, cont |-> cont, item |-> item, ok |-> ok, data |-> data,
   sess |-> sess, poll |-> pl]

\* Calls of one call site and item that are awaited.  A handler is not
\* invoked again for the item while its previous call is awaited.
Pending(cont, item) ==
  Cardinality({r \in motionCalls : r.cont = cont /\ r.item = item})

Idle(cont, item) == Pending(cont, item) = 0

\* Room for n more awaited answers.
CanCall(n) == Cardinality(motionCalls) + n <= MaxInFlight

\* ------------------------------------------------- collaborator: motion service
\* GET /items/{id}/motions as the collaborator answers it now.  Whether a
\* read reaches the client (`ok`) or fails on the way is decided on arrival.
GetMotionsAnswer(cont, item) ==
  Answer("getMotions", cont, item, TRUE, srvMotions[item], NoSession, NoPollRec)

\* GET /items/{id} as the collaborator answers it now.
GetMotionItemAnswer(cont, item) ==
  Answer("getMotionItem", cont, item, TRUE, <<>>, srvSession[item], srvPoll[item])

NextUuid == Cardinality(AllSrvMotions) + 1

\* POST /items/{id}/motions: the new motion is appended and motion_added emitted.
SrvCreateMotion(item, owner) ==
  LET m == Motion(NextUuid, owner, "submitted") IN
  /\ srvMotions' = [srvMotions EXCEPT ![item] = Append(@, m)]
  /\ motionEvents' = motionEvents \cup
       {[type |-> "motion_added", motion_item_id |-> item, motion |-> m]}

\* PATCH /items/{id}/motions/{uuid}: the text is replaced and motion_updated emitted.
SrvUpdateMotion(item, k) ==
  LET old == srvMotions[item][k]
      m == Motion(old.motion_uuid, old.owner, "edited") IN
  /\ srvMotions' = [srvMotions EXCEPT ![item][k] = m]
  /\ motionEvents' = motionEvents \cup
       {[type |-> "motion_updated", motion_item_id |-> item, motion |-> m]}

srvMotionState == <<srvMotions, srvSession, srvPoll, motionEvents>>

motionLocal == <<mounted, motionItemId, hasManagePermission, motions, motionError,
                 votingSessionState, activePollId, votingActive, interval, timeouts,
                 viaEvent, dupSeen>>

\* Another participant submits a motion.
RemoteCreateMotion ==
  \E item \in Items :
    /\ NextUuid <= MaxMotions
    /\ SrvCreateMotion(item, "other")
    /\ UNCHANGED <<srvSession, srvPoll, motionCalls, motionLocal>>
    /\ UNCHANGED otherThanMotion

\* A motion's owner edits it elsewhere.
RemoteUpdateMotion ==
  \E item \in Items : \E k \in 1 .. Len(srvMotions[item]) :
    /\ srvMotions[item][k].motion = "submitted"
    /\ srvSession[item] = NoSession
    /\ SrvUpdateMotion(item, k)
    /\ UNCHANGED <<srvSession, srvPoll, motionCalls, motionLocal>>
    /\ UNCHANGED otherThanMotion

\* The voting session creates its poll some time after startVoting returned.
ServerOpenPoll ==
  \E item \in Items :
    /\ srvSession[item] = "in_progress"
    /\ srvPoll[item].poll_uuid < MaxPolls
    /\ srvPoll[item].poll_state # "open"
    /\ srvPoll' = [srvPoll EXCEPT ![item] =
         [poll_uuid |-> @.poll_uuid + 1, poll_state |-> "open"]]
    /\ UNCHANGED <<srvMotions, srvSession, motionEvents, motionCalls, motionLocal>>
    /\ UNCHANGED otherThanMotion

\* The poll is closed; after the last poll the session is completed.
ServerClosePoll ==
  \E item \in Items :
    /\ srvPoll[item].poll_state = "open"
    /\ srvPoll' = [srvPoll EXCEPT ![item].poll_state = "closed"]
    /\ srvSession' = [srvSession EXCEPT ![item] =
         IF srvPoll[item].poll_uuid >= MaxPolls THEN "completed" ELSE @]
    /\ UNCHANGED <<srvMotions, motionEvents, motionCalls, motionLocal>>
    /\ UNCHANGED otherThanMotion

\* ------------------------------------------------------------- MotionManager
\* The two effects keyed on motionItemId: checkForPoll() once and on a 5 s
\* interval, fetchMotions(), join the room and register the handlers.
ItemEffects(item) ==
  /\ motionCalls' = motionCalls \cup
       {GetMotionItemAnswer("checkForPoll", item),
        GetMotionsAnswer("fetchMotions", item)}
  /\ interval' = item

Mount ==
  /\ mounted = "no"
  /\ ItemEffects(motionItemId)
  /\ mounted' = "yes"
  /\ fetchUser("motion")
  /\ UNCHANGED <<srvMotionState, motionItemId, hasManagePermission, motions, motionError,
                 votingSessionState, activePollId, votingActive, timeouts,
                 viaEvent, dupSeen>>
  /\ UNCHANGED <<motionPeers, editVars>>

\* The parent renders the same MotionManager with another motionItemId: the
\* cleanups of the old item run (clearInterval, leave, off), then the effects
\* of the new one.  No state is reset.
ItemChanges(room) ==
  /\ mounted = "yes"
  /\ \E item \in Items \ {motionItemId} :
       /\ Cardinality(motionCalls) + 2 <= room
       /\ motionItemId' = item
       /\ ItemEffects(item)
  /\ viaEvent' = {}
  /\ UNCHANGED <<srvMotionState, mounted, hasManagePermission, motions, motionError,
                 votingSessionState, activePollId, votingActive, timeouts, dupSeen>>
  /\ UNCHANGED otherThanMotion

\* The item changes once the answers of the old one have arrived.
ChangeItem == ItemChanges(MaxInFlight)

\* The item changes while answers for the old one are still awaited.
ChangeItemAwaiting == ItemChanges(MaxInFlight + MaxStale)

\* The cleanups run: clearInterval, leave the room, off.
Unmount ==
  /\ mounted = "yes"
  /\ mounted' = "gone"
  /\ interval' = NoItem
  /\ UNCHANGED <<srvMotionState, motionCalls, motionItemId, hasManagePermission,
                 motions, motionError, votingSessionState, activePollId,
                 votingActive, timeouts, viaEvent, dupSeen>>
  /\ UNCHANGED otherThanMotion

\* The view a render shows: VoteManager (or the no-permission notice) replaces
\* the whole motion list while votingActive && activePollId.
ShowsMotionList == mounted = "yes" /\ ~(votingActive /\ activePollId # NoPoll)

\* setMotions(prev => ...) of handleMotionAdded.
MotionAddedBlindAppend(prev, m) == Append(prev, m)

MotionAddedMerge(prev, m) ==
  IF \E k \in 1 .. Len(prev) : prev[k].motion_uuid = m.motion_uuid
  THEN prev
  ELSE Append(prev, m)

\* setMotions(prev => prev.map(...)) of handleMotionUpdated.
MotionUpdatedMerge(prev, m) ==
  [k \in 1 .. Len(prev) |->
     IF prev[k].motion_uuid = m.motion_uuid THEN m ELSE prev[k]]

\* The channel delivers a motion_added event to the registered handler.
handleMotionAdded(data) ==
  /\ mounted = "yes"
  /\ data.type = "motion_added"
  /\ IF data.motion_item_id = motionItemId
     THEN /\ motions' = MotionAddedMerge(motions, data.motion)
          /\ dupSeen' = (dupSeen \/ Has(motions, data.motion.motion_uuid))
          /\ viaEvent' = IF Has(motions, data.motion.motion_uuid) THEN viaEvent
                         ELSE viaEvent \cup {data.motion.motion_uuid}
     ELSE UNCHANGED <<motions, dupSeen, viaEvent>>
  /\ UNCHANGED <<srvMotionState, motionCalls, mounted, motionItemId,
                 hasManagePermission, motionError, votingSessionState, activePollId,
                 votingActive, interval, timeouts>>
  /\ UNCHANGED otherThanMotion

\* The channel delivers a motion_updated event to the registered handler.
handleMotionUpdated(data) ==
  /\ mounted = "yes"
  /\ data.type = "motion_updated"
  /\ IF data.motion_item_id = motionItemId
     THEN /\ motions' = MotionUpdatedMerge(motions, data.motion)
          /\ viaEvent' = IF Has(motions, data.motion.motion_uuid)
                         THEN viaEvent \cup {data.motion.motion_uuid}
                         ELSE viaEvent
     ELSE UNCHANGED <<motions, viaEvent>>
  /\ UNCHANGED <<srvMotionState, motionCalls, mounted, motionItemId,
                 hasManagePermission, motionError, votingSessionState, activePollId,
                 votingActive, interval, timeouts, dupSeen>>
  /\ UNCHANGED otherThanMotion

DeliverMotionAdded == \E data \in motionEvents : handleMotionAdded(data)

DeliverMotionUpdated == \E data \in motionEvents : handleMotionUpdated(data)

\* A state setter of a view that has unmounted changes nothing.
SetIfMounted(new, old) == IF mounted = "yes" THEN new ELSE old

\* fetchMotions resumes after `await getMotions(motionItemId)`.
FetchMotionsResume(r, ok) ==
  /\ r \in motionCalls /\ r.call = "getMotions" /\ r.cont = "fetchMotions"
  /\ motionCalls' = motionCalls \ {r}
  /\ motions' = SetIfMounted(IF ok THEN r.data ELSE <<>>, motions)
  /\ motionError' = SetIfMounted(IF ok THEN motionError ELSE "Failed to load motions",
                                 motionError)
  /\ viaEvent' = SetIfMounted({}, viaEvent)
  /\ UNCHANGED <<srvMotionState, mounted, motionItemId, hasManagePermission,
                 votingSessionState, activePollId, votingActive, interval, timeouts,
                 dupSeen>>
  /\ UNCHANGED otherThanMotion

FetchMotionsAnswer(r) == \E ok \in BOOLEAN : FetchMotionsResume(r, ok)

\* checkForPoll resumes after `await getMotionItem(motionItemId)`; a failure
\* is logged only.
CheckForPollResume(r, ok) ==
  /\ r \in motionCalls /\ r.call = "getMotionItem" /\ r.cont = "checkForPoll"
  /\ motionCalls' = motionCalls \ {r}
  /\ IF ok /\ mounted = "yes"
     THEN /\ votingSessionState' = r.sess
          /\ activePollId' = r.poll.poll_uuid
          /\ votingActive' = (r.poll.poll_uuid # NoPoll /\ r.poll.poll_state = "open")
     ELSE UNCHANGED <<votingSessionState, activePollId, votingActive>>
  /\ UNCHANGED <<srvMotionState, mounted, motionItemId, hasManagePermission, motions,
                 motionError, interval, timeouts, viaEvent, dupSeen>>
  /\ UNCHANGED otherThanMotion

CheckForPollAnswer(r) == \E ok \in BOOLEAN : CheckForPollResume(r, ok)

IntervalTickIdle(item) ==
  /\ interval = item
  /\ UNCHANGED <<srvMotionState, motionCalls, motionLocal>>
  /\ UNCHANGED otherThanMotion

\* The 5 s interval fires: checkForPoll() for the item its closure captured.
IntervalTick(item) ==
  /\ interval = item
  /\ CanCall(1)
  /\ motionCalls' = motionCalls \cup {GetMotionItemAnswer("checkForPoll", item)}
  /\ UNCHANGED <<srvMotionState, motionLocal>>
  /\ UNCHANGED otherThanMotion

IntervalFires == \E item \in Items : IntervalTick(item)

\* What may stand in the new-motion textarea: nothing, blanks only, a text.
NewMotionTexts == {"", "  ", "motion"}

\* String.prototype.trim() on those texts.
trim(text) == IF text = "  " THEN "" ELSE text

NewMotionFormShownAlways == ShowsMotionList

\* The new-motion form is rendered only while there is no voting session.
NewMotionFormShown == ShowsMotionList /\ votingSessionState = NoSession

\* handleCreateMotion up to `await createMotion(motionItemId, text)`: a text
\* that is blank after trim() sets the error and returns before any request.
handleCreateMotion(text) ==
  /\ mounted = "yes"
  /\ IF trim(text) = ""
     THEN /\ motionError' = "Please enter motion text"
          /\ UNCHANGED <<srvMotions, motionEvents, motionCalls>>
     ELSE /\ Idle("handleCreateMotion", motionItemId)
          /\ \E ok \in BOOLEAN :
               /\ ok => NextUuid <= MaxMotions
               /\ IF ok
                  THEN SrvCreateMotion(motionItemId, currentUsername)
                  ELSE UNCHANGED <<srvMotions, motionEvents>>
               /\ motionCalls' = motionCalls \cup
                    {Answer("createMotion", "handleCreateMotion", motionItemId, ok, <<>>,
                            NoSession, NoPollRec)}
          /\ UNCHANGED motionError
  /\ UNCHANGED <<srvSession, srvPoll, mounted, motionItemId, hasManagePermission, motions,
                 votingSessionState, activePollId, votingActive, interval, timeouts,
                 viaEvent, dupSeen>>
  /\ UNCHANGED otherThanMotion

\* Submit Motion: the button is disabled while the text is blank.
SubmitMotion ==
  /\ NewMotionFormShown
  /\ \E text \in NewMotionTexts : trim(text) # "" /\ handleCreateMotion(text)

\* The form is submitted with whatever the textarea holds.
SubmitMotionForm ==
  /\ NewMotionFormShown
  /\ \E text \in NewMotionTexts : handleCreateMotion(text)

\* handleCreateMotion resumes: on success it clears the form and re-fetches
\* the list; a rejection sets the error.
CreateMotionAnswer(r) ==
  /\ r \in motionCalls /\ r.call = "createMotion"
  /\ IF r.ok
     THEN /\ motionCalls' = (motionCalls \ {r}) \cup
               {GetMotionsAnswer("handleCreateMotion", r.item)}
          /\ motionError' = SetIfMounted("", motionError)
     ELSE /\ motionCalls' = motionCalls \ {r}
          /\ motionError' = SetIfMounted("Failed to create motion", motionError)
  /\ UNCHANGED <<srvMotionState, mounted, motionItemId, hasManagePermission, motions,
                 votingSessionState, activePollId, votingActive, interval, timeouts,
                 viaEvent, dupSeen>>
  /\ UNCHANGED otherThanMotion

\* handleCreateMotion resumes after its re-fetch `await getMotions(motionItemId)`.
RefetchMotionsResume(r, ok) ==
  /\ r \in motionCalls /\ r.call = "getMotions" /\ r.cont = "handleCreateMotion"
  /\ motionCalls' = motionCalls \ {r}
  /\ motions' = SetIfMounted(IF ok THEN r.data ELSE motions, motions)
  /\ motionError' = SetIfMounted(IF ok THEN motionError ELSE "Failed to create motion",
                                 motionError)
  /\ viaEvent' = SetIfMounted(IF ok THEN {} ELSE viaEvent, viaEvent)
  /\ UNCHANGED <<srvMotionState, mounted, motionItemId, hasManagePermission,
                 votingSessionState, activePollId, votingActive, interval, timeouts,
                 dupSeen>>
  /\ UNCHANGED otherThanMotion

RefetchMotionsAnswer(r) == \E ok \in BOOLEAN : RefetchMotionsResume(r, ok)

\* handleStartVoting up to `await startVoting(meetingId, motionItemId)`.  The
\* button is rendered for a manager while the list is non-empty and there is
\* no voting session.
\* The Start Voting button rendered whatever the list holds.
StartVotingOfferedOnAnyList ==
  hasManagePermission /\ votingSessionState = NoSession

\* The Start Voting button is rendered.
StartVotingOffered ==
  hasManagePermission /\ Len(motions) > 0 /\ votingSessionState = NoSession

handleStartVoting ==
  /\ ShowsMotionList
  /\ StartVotingOffered
  /\ Idle("handleStartVoting", motionItemId) /\ CanCall(1)
  /\ \E ok \in BOOLEAN :
       /\ ok => (srvSession[motionItemId] = NoSession /\ Len(srvMotions[motionItemId]) > 0)
       /\ srvSession' = IF ok THEN [srvSession EXCEPT ![motionItemId] = "in_progress"]
                        ELSE srvSession
       /\ motionCalls' = motionCalls \cup
            {Answer("startVoting", "handleStartVoting", motionItemId, ok, <<>>,
                    NoSession, NoPollRec)}
  /\ UNCHANGED <<srvMotions, srvPoll, motionEvents, motionLocal>>
  /\ UNCHANGED otherThanMotion

\* handleStartVoting resumes: on success it schedules the 1 s re-fetch of the
\* motion item, which nothing cancels.  `on` records whether the view was on
\* the item when it scheduled the timer.
StartVotingAnswer(r) ==
  /\ r \in motionCalls /\ r.call = "startVoting"
  /\ motionCalls' = motionCalls \ {r}
  /\ IF r.ok
     THEN /\ timeouts' = timeouts \cup
               {[item |-> r.item, on |-> (mounted = "yes" /\ motionItemId = r.item)]}
          /\ motionError' = SetIfMounted("", motionError)
     ELSE /\ timeouts' = timeouts
          /\ motionError' = SetIfMounted("Failed to start voting", motionError)
  /\ UNCHANGED <<srvMotionState, mounted, motionItemId, hasManagePermission, motions,
                 votingSessionState, activePollId, votingActive, interval,
                 viaEvent, dupSeen>>
  /\ UNCHANGED otherThanMotion

\* The 1 s timer fires: getMotionItem for the item its closure captured.
StartVotingTimeout(t) ==
  /\ t \in timeouts
  /\ CanCall(1)
  /\ timeouts' = timeouts \ {t}
  /\ motionCalls' = motionCalls \cup {GetMotionItemAnswer("handleStartVoting", t.item)}
  /\ UNCHANGED <<srvMotionState, mounted, motionItemId, hasManagePermission, motions,
                 motionError, votingSessionState, activePollId, votingActive, interval,
                 viaEvent, dupSeen>>
  /\ UNCHANGED otherThanMotion

TimeoutFires == \E t \in timeouts : StartVotingTimeout(t)

\* The timer callback resumes after `await getMotionItem(motionItemId)`; a
\* rejection is unhandled and changes nothing.
TimeoutResume(r, ok) ==
  /\ r \in motionCalls /\ r.call = "getMotionItem" /\ r.cont = "handleStartVoting"
  /\ motionCalls' = motionCalls \ {r}
  /\ IF ok /\ mounted = "yes" /\ r.poll.poll_uuid # NoPoll
     THEN /\ activePollId' = r.poll.poll_uuid
          /\ votingActive' = TRUE
     ELSE UNCHANGED <<activePollId, votingActive>>
  /\ UNCHANGED <<srvMotionState, mounted, motionItemId, hasManagePermission, motions,
                 motionError, votingSessionState, interval, timeouts, viaEvent, dupSeen>>
  /\ UNCHANGED otherThanMotion

TimeoutAnswer(r) == \E ok \in BOOLEAN : TimeoutResume(r, ok)

InitMotionLocal ==
  /\ motionEvents = {}
  /\ motionCalls = {}
  /\ mounted = "no"
  /\ motionItemId = "A"
  /\ motions = <<>>
  /\ motionError = ""
  /\ votingSessionState = NoSession
  /\ activePollId = NoPoll
  /\ votingActive = FALSE
  /\ interval = NoItem
  /\ timeouts = {}
  /\ viaEvent = {}
  /\ dupSeen = FALSE

\* --- the motion list: no voting session is started, so the periodic
\* checkForPoll (which reads the session only) is left out.
InitMotionIdle ==
  /\ srvMotions = [i \in Items |-> <<>>]
  /\ srvSession = [i \in Items |-> NoSession]
  /\ srvPoll = [i \in Items |-> NoPollRec]
  /\ hasManagePermission = FALSE
  /\ InitMotionLocal

InitMotionList ==
  /\ InitMotionIdle
  /\ InitVoteIdle
  /\ InitElectionIdle
  /\ InitMeetingIdle
  /\ InitUserIdle
  /\ InitEditIdle
  /\ InitAuxIdle

MotionListAnswer ==
  \E r \in motionCalls :
    \/ FetchMotionsAnswer(r)
    \/ CheckForPollAnswer(r)
    \/ CreateMotionAnswer(r)
    \/ RefetchMotionsAnswer(r)

NextMotionList ==
  \/ Mount
  \/ RemoteCreateMotion
  \/ RemoteUpdateMotion
  \/ DeliverMotionAdded
  \/ DeliverMotionUpdated
  \/ SubmitMotion
  \/ MotionListAnswer

SpecMotionList == InitMotionList /\ [][NextMotionList]_vars

\* --- the voting session and its timers: the motions are those the items
\* were seeded with.
InitMotionPoll ==
  /\ srvMotions = [i \in Items |-> IF i = "A" THEN <<Motion(1, "other", "submitted")>>
                                   ELSE <<Motion(2, currentUsername, "submitted")>>]
  /\ srvSession = [i \in Items |-> NoSession]
  /\ srvPoll = [i \in Items |-> NoPollRec]
  /\ hasManagePermission \in BOOLEAN
  /\ InitMotionLocal
  /\ InitVoteIdle
  /\ InitElectionIdle
  /\ InitMeetingIdle
  /\ InitUserIdle
  /\ InitEditIdle
  /\ InitAuxIdle

MotionPollAnswer ==
  \E r \in motionCalls :
    \/ FetchMotionsAnswer(r)
    \/ CheckForPollAnswer(r)
    \/ StartVotingAnswer(r)
    \/ TimeoutAnswer(r)

NextMotionPoll ==
  \/ Mount
  \/ ChangeItem
  \/ Unmount
  \/ ServerOpenPoll
  \/ ServerClosePoll
  \/ IntervalFires
  \/ handleStartVoting
  \/ TimeoutFires
  \/ MotionPollAnswer

SpecMotionPoll == InitMotionPoll /\ [][NextMotionPoll]_vars

\* --- starting the vote: a manager on an item that has no motion yet.
InitMotionStart ==
  /\ srvMotions = [i \in Items |-> <<>>]
  /\ srvSession = [i \in Items |-> NoSession]
  /\ srvPoll = [i \in Items |-> NoPollRec]
  /\ hasManagePermission = TRUE
  /\ InitMotionLocal
  /\ InitVoteIdle
  /\ InitElectionIdle
  /\ InitMeetingIdle
  /\ InitUserIdle
  /\ InitEditIdle
  /\ InitAuxIdle

MotionStartAnswer ==
  \E r \in motionCalls :
    \/ FetchMotionsAnswer(r)
    \/ CheckForPollAnswer(r)
    \/ StartVotingAnswer(r)
    \/ TimeoutAnswer(r)

NextMotionStart ==
  \/ Mount
  \/ RemoteCreateMotion
  \/ DeliverMotionAdded
  \/ ServerOpenPoll
  \/ handleStartVoting
  \/ TimeoutFires
  \/ MotionStartAnswer

SpecMotionStart == InitMotionStart /\ [][NextMotionStart]_vars

\* ------------------------------------------------- collaborator: voting service
VoteAnswer(call, p, ok, hv) ==
  [call |-> call, poll |-> p, ok |-> ok, has_voted |-> hv]

\* GET /polls/{id}.  Whether a read reaches the client is decided on arrival.
GetPollAnswer(p) == VoteAnswer("getPoll", p, TRUE, FALSE)

\* GET /polls/{id}/vote as the collaborator answers it now.
HasVotedAnswer(p) == VoteAnswer("hasVoted", p, TRUE, p \in srvVoted)

\* POST /polls/{id}/vote: the collaborator records the vote unless the user
\* has one on the poll already (or it refuses for another reason).
SubmitVoteAnswer(p, ok) == VoteAnswer("submitVote", p, ok, FALSE)

pollType(p) == IF p = 1 THEN "single" ELSE "ranked"

CanVoteCall == Cardinality(voteCalls) < MaxVoteCalls

\* ---------------------------------------------------------------- VoteManager
SetIfVoteMounted(new, old) == IF voteMounted = "yes" THEN new ELSE old

\* The effect keyed on pollId: fetchPoll() up to `await getPoll(pollId)`.
fetchPoll(p) ==
  /\ voteLoading' = TRUE
  /\ voteCalls' = voteCalls \cup {GetPollAnswer(p)}
  /\ loadVoted' = (p \in srvVoted)

VoteMount ==
  /\ voteMounted = "no"
  /\ voteMounted' = "yes"
  /\ fetchPoll(pollId)
  /\ UNCHANGED <<srvVoted, pollId, poll, voteError, selectedOption, rankedOptions,
                 hasVoted, submitting, votedHere>>
  /\ UNCHANGED otherThanVote

\* The parent renders the same VoteManager with another pollId: the effect
\* runs again.  It has no cleanup and no state is reset.
ChangePoll ==
  /\ voteMounted = "yes"
  /\ CanVoteCall
  /\ \E p \in PollIds \ {pollId} :
       /\ pollId' = p
       /\ fetchPoll(p)
  /\ UNCHANGED <<srvVoted, voteMounted, poll, voteError, selectedOption,
                 rankedOptions, hasVoted, submitting, votedHere>>
  /\ UNCHANGED otherThanVote

VoteUnmount ==
  /\ voteMounted = "yes"
  /\ voteMounted' = "gone"
  /\ UNCHANGED <<srvVoted, voteCalls, pollId, poll, voteLoading, voteError,
                 selectedOption, rankedOptions, hasVoted, submitting, votedHere,
                 loadVoted>>
  /\ UNCHANGED otherThanVote

\* fetchPoll resumes after `await getPoll(pollId)`: it stores the poll, clears
\* the ranking of a ranked poll and asks whether the user has voted; a failure
\* sets the error and ends the loading.
GetPollResume(r, ok) ==
  /\ r \in voteCalls /\ r.call = "getPoll"
  /\ IF ok
     THEN /\ voteCalls' = (voteCalls \ {r}) \cup {HasVotedAnswer(r.poll)}
          /\ poll' = SetIfVoteMounted(r.poll, poll)
          /\ rankedOptions' = SetIfVoteMounted(
               IF pollType(r.poll) = "ranked" THEN <<>> ELSE rankedOptions,
               rankedOptions)
          /\ UNCHANGED <<voteError, voteLoading>>
     ELSE /\ voteCalls' = voteCalls \ {r}
          /\ voteError' = SetIfVoteMounted("Failed to load poll", voteError)
          /\ voteLoading' = SetIfVoteMounted(FALSE, voteLoading)
          /\ UNCHANGED <<poll, rankedOptions>>
  /\ UNCHANGED <<srvVoted, voteMounted, pollId, selectedOption, hasVoted, submitting,
                 votedHere, loadVoted>>
  /\ UNCHANGED otherThanVote

GetPollArrives(r) == \E ok \in BOOLEAN : GetPollResume(r, ok)

\* fetchPoll resumes after `await hasVoted(pollId)`: a failure is logged only;
\* either way the loading ends.
HasVotedResume(r, ok) ==
  /\ r \in voteCalls /\ r.call = "hasVoted"
  /\ voteCalls' = voteCalls \ {r}
  /\ hasVoted' = SetIfVoteMounted(IF ok THEN r.has_voted ELSE hasVoted, hasVoted)
  /\ voteLoading' = SetIfVoteMounted(FALSE, voteLoading)
  /\ UNCHANGED <<srvVoted, voteMounted, pollId, poll, voteError, selectedOption,
                 rankedOptions, submitting, votedHere, loadVoted>>
  /\ UNCHANGED otherThanVote

HasVotedArrives(r) == \E ok \in BOOLEAN : HasVotedResume(r, ok)

\* The render offers the ballot: not loading, a poll is loaded and hasVoted is
\* false.
BallotOffered ==
  voteMounted = "yes" /\ ~voteLoading /\ poll # NoPoll /\ ~hasVoted

handleSingleVote(option) ==
  /\ BallotOffered /\ pollType(poll) = "single"
  /\ selectedOption' = option
  /\ UNCHANGED <<srvVoted, voteCalls, voteMounted, pollId, poll, voteLoading, voteError,
                 rankedOptions, hasVoted, submitting, votedHere, loadVoted>>
  /\ UNCHANGED otherThanVote

\* A ranked option is removed from the ranking, an unranked one appended.
handleRankedVote(option) ==
  /\ BallotOffered /\ pollType(poll) = "ranked"
  /\ rankedOptions' =
       IF \E k \in 1 .. Len(rankedOptions) : rankedOptions[k] = option
       THEN SelectSeq(rankedOptions, LAMBDA o : o # option)
       ELSE Append(rankedOptions, option)
  /\ UNCHANGED <<srvVoted, voteCalls, voteMounted, pollId, poll, voteLoading, voteError,
                 selectedOption, hasVoted, submitting, votedHere, loadVoted>>
  /\ UNCHANGED otherThanVote

\* A move up that copies the entry over its predecessor instead of swapping.
moveRankUpOverwrite(index) ==
  /\ BallotOffered /\ pollType(poll) = "ranked"
  /\ index \in 1 .. Len(rankedOptions)
  /\ rankedOptions' =
       IF index = 1 THEN rankedOptions
       ELSE [rankedOptions EXCEPT ![index - 1] = rankedOptions[index]]
  /\ UNCHANGED <<srvVoted, voteCalls, voteMounted, pollId, poll, voteLoading, voteError,
                 selectedOption, hasVoted, submitting, votedHere, loadVoted>>
  /\ UNCHANGED otherThanVote

\* moveRankUp(index), with indices counted from 1: the first entry stays.
moveRankUp(index) ==
  /\ BallotOffered /\ pollType(poll) = "ranked"
  /\ index \in 1 .. Len(rankedOptions)
  /\ rankedOptions' =
       IF index = 1 THEN rankedOptions
       ELSE [rankedOptions EXCEPT ![index - 1] = rankedOptions[index],
                                  ![index] = rankedOptions[index - 1]]
  /\ UNCHANGED <<srvVoted, voteCalls, voteMounted, pollId, poll, voteLoading, voteError,
                 selectedOption, hasVoted, submitting, votedHere, loadVoted>>
  /\ UNCHANGED otherThanVote

\* moveRankDown(index): the last entry stays.
moveRankDown(index) ==
  /\ BallotOffered /\ pollType(poll) = "ranked"
  /\ index \in 1 .. Len(rankedOptions)
  /\ rankedOptions' =
       IF index = Len(rankedOptions) THEN rankedOptions
       ELSE [rankedOptions EXCEPT ![index] = rankedOptions[index + 1],
                                  ![index + 1] = rankedOptions[index]]
  /\ UNCHANGED <<srvVoted, voteCalls, voteMounted, pollId, poll, voteLoading, voteError,
                 selectedOption, hasVoted, submitting, votedHere, loadVoted>>
  /\ UNCHANGED otherThanVote

\* poll.options: a single-choice poll offers Options, a ranked poll one more.
pollOptions(p) == IF pollType(p) = "single" THEN Options ELSE Options \cup {"abstain"}

SelectOption == \E option \in pollOptions(poll) : handleSingleVote(option)

RankOption == \E option \in pollOptions(poll) : handleRankedVote(option)

\* The checks of handleSubmitVote taken as passed whatever the ballot holds.
BallotFilledAlways == TRUE

\* The checks of handleSubmitVote: a selection for a single-choice poll, a
\* non-empty ranking otherwise.
BallotFilled ==
  IF pollType(poll) = "single" THEN selectedOption # "" ELSE Len(rankedOptions) > 0

EmptyBallotError ==
  IF pollType(poll) = "single" THEN "Please select an option"
  ELSE "Please rank at least one option"

\* handleSubmitVote: without a poll it returns; an empty ballot sets the
\* error and returns; otherwise up to `await submitVote(pollId, voteData)`.
handleSubmitVote ==
  /\ voteMounted = "yes" /\ poll # NoPoll
  /\ IF ~BallotFilled
     THEN /\ voteError' = EmptyBallotError
          /\ UNCHANGED <<srvVoted, voteCalls, submitting>>
     ELSE /\ CanVoteCall
          /\ submitting' = TRUE
          /\ \E ok \in BOOLEAN :
               /\ ok => pollId \notin srvVoted
               /\ srvVoted' = IF ok THEN srvVoted \cup {pollId} ELSE srvVoted
               /\ voteCalls' = voteCalls \cup {SubmitVoteAnswer(pollId, ok)}
          /\ UNCHANGED voteError
  /\ UNCHANGED <<voteMounted, pollId, poll, voteLoading, selectedOption,
                 rankedOptions, hasVoted, votedHere, loadVoted>>
  /\ UNCHANGED otherThanVote

\* The submit button is enabled.
SubmitEnabled ==
  ~submitting /\
  (IF pollType(poll) = "single" THEN selectedOption # "" ELSE Len(rankedOptions) # 0)

\* A click on the submit button of the ballot.
SubmitVote == BallotOffered /\ SubmitEnabled /\ handleSubmitVote

\* handleSubmitVote resumes: success sets hasVoted, a rejection the error.
SubmitVoteResume(r) ==
  /\ r \in voteCalls /\ r.call = "submitVote"
  /\ voteCalls' = voteCalls \ {r}
  /\ hasVoted' = SetIfVoteMounted(IF r.ok THEN TRUE ELSE hasVoted, hasVoted)
  /\ voteError' = SetIfVoteMounted(IF r.ok THEN "" ELSE "Failed to submit vote",
                                   voteError)
  /\ submitting' = SetIfVoteMounted(FALSE, submitting)
  /\ votedHere' = IF r.ok THEN votedHere \cup {r.poll} ELSE votedHere
  /\ UNCHANGED <<srvVoted, voteMounted, pollId, poll, voteLoading, selectedOption,
                 rankedOptions, loadVoted>>
  /\ UNCHANGED otherThanVote

\* The page is opened by a user who may have voted on some polls before.
InitVote ==
  /\ srvVoted \in SUBSET PollIds
  /\ voteCalls = {}
  /\ voteMounted = "no"
  /\ pollId \in PollIds
  /\ poll = NoPoll
  /\ voteLoading = TRUE
  /\ voteError = ""
  /\ selectedOption = ""
  /\ rankedOptions = <<>>
  /\ hasVoted = FALSE
  /\ submitting = FALSE
  /\ votedHere = {}
  /\ loadVoted = FALSE
  /\ InitMotionIdle
  /\ InitElectionIdle
  /\ InitMeetingIdle
  /\ InitUserIdle
  /\ InitEditIdle
  /\ InitAuxIdle

VoteAnswerArrives ==
  \E r \in voteCalls :
    \/ GetPollArrives(r)
    \/ HasVotedArrives(r)
    \/ SubmitVoteResume(r)

NextVote ==
  \/ VoteMount
  \/ ChangePoll
  \/ VoteUnmount
  \/ SelectOption
  \/ RankOption
  \/ SubmitVote
  \/ VoteAnswerArrives

SpecVote == InitVote /\ [][NextVote]_vars

\* What VoteManager renders, in the order of its early returns.
VoteView ==
  IF voteLoading THEN "loading"
  ELSE IF voteError # "" /\ poll = NoPoll THEN "error"
  ELSE IF poll = NoPoll THEN "none"
  ELSE IF hasVoted THEN "submitted"
  ELSE "ballot"

\* The controls of a view: the option buttons and the submit button of the
\* ballot.  The hasManagePermission prop is declared and never read.
VoteControls(view) == IF view = "ballot" THEN {"option", "submit"} ELSE {}

\* --- VoteManager as MotionManager renders it, hasManagePermission passed on
\* either way.
InitVoteManager ==
  /\ srvVoted = {}
  /\ voteCalls = {}
  /\ voteMounted = "no"
  /\ pollId = 1
  /\ poll = NoPoll
  /\ voteLoading = TRUE
  /\ voteError = ""
  /\ selectedOption = ""
  /\ rankedOptions = <<>>
  /\ hasVoted = FALSE
  /\ submitting = FALSE
  /\ votedHere = {}
  /\ loadVoted = FALSE
  /\ srvMotions = [i \in Items |-> <<>>]
  /\ srvSession = [i \in Items |-> NoSession]
  /\ srvPoll = [i \in Items |-> NoPollRec]
  /\ hasManagePermission \in BOOLEAN
  /\ InitMotionLocal
  /\ InitElectionIdle
  /\ InitMeetingIdle
  /\ InitUserIdle
  /\ InitEditIdle
  /\ InitAuxIdle

SpecVoteManager == InitVoteManager /\ [][NextVote]_vars

\* --- the ballot: the handlers of the voting interface run on the ballot shown.
\* handleSubmitVote runs with its own checks deciding: the button's test of the
\* ballot (SubmitEnabled) is a second guard in front of the same handler.
InitBallot ==
  /\ srvVoted = {}
  /\ voteCalls = {}
  /\ voteMounted = "no"
  /\ pollId \in PollIds
  /\ poll = NoPoll
  /\ voteLoading = TRUE
  /\ voteError = ""
  /\ selectedOption = ""
  /\ rankedOptions = <<>>
  /\ hasVoted = FALSE
  /\ submitting = FALSE
  /\ votedHere = {}
  /\ loadVoted = FALSE
  /\ InitMotionIdle
  /\ InitElectionIdle
  /\ InitMeetingIdle
  /\ InitUserIdle
  /\ InitEditIdle
  /\ InitAuxIdle

MoveUp == \E index \in 1 .. Len(rankedOptions) : moveRankUp(index)

MoveDown == \E index \in 1 .. Len(rankedOptions) : moveRankDown(index)

SubmitBallot == BallotOffered /\ ~submitting /\ handleSubmitVote

NextBallot ==
  \/ VoteMount
  \/ ChangePoll
  \/ SelectOption
  \/ RankOption
  \/ MoveUp
  \/ MoveDown
  \/ SubmitBallot
  \/ VoteAnswerArrives

SpecBallot == InitBallot /\ [][NextBallot]_vars

\* ------------------------------------------------ collaborator: election service
Position(id, name) ==
  [position_id |-> id, position_name |-> name, is_open |-> TRUE, poll_id |-> NoPoll]

ElCall(inst, call, k, created, res, data, noms, pid) ==
  [inst |-> inst, call |-> call, k |-> k, created |-> created, res |-> res,
   data |-> data, noms |-> noms, pid |-> pid]

HasName(name) == \E k \in 1 .. Len(srvPositions) : srvPositions[k].position_name = name

\* POST /positions: what the collaborator may answer now.  Whether it refuses
\* a name the item already has is its own policy.
CreateOutcomes(name) ==
  (IF Len(srvPositions) < MaxPositions THEN {"created"} ELSE {})
    \cup (IF HasName(name) THEN {"exists"} ELSE {})
    \cup {"error"}

NextPositionId == Len(srvPositions) + 1

\* The collaborator handles POST /positions with outcome res.
SrvCreatePosition(name, res) ==
  IF res = "created"
  THEN /\ srvPositions' = Append(srvPositions, Position(NextPositionId, name))
       /\ elEvents' = elEvents \cup
            {[type |-> "position_created", position |-> Position(NextPositionId, name)]}
  ELSE UNCHANGED <<srvPositions, elEvents>>

\* GET /positions?meeting_id&agenda_item_id as the collaborator answers it now.
\* The agenda item an instance shows: the agenda list instance that of its
\* row, the CurrentAgendaItem instance the meeting's current one.
ItemShown(inst) == IF inst = "current" THEN agendaItemIndex ELSE 0

IsOfItem(pos, item) == srvItemOf[pos.position_id] = item

PositionsOfItem(item) == SelectSeq(srvPositions, LAMBDA pos : IsOfItem(pos, item))

GetPositionsAnswer(inst) ==
  ElCall(inst, "getPositions", 0, <<>>, "ok", PositionsOfItem(ItemShown(inst)),
         NoNominations, 0)

\* GET /positions/{id}/nominations as the collaborator answers it now.
GetNominationsAnswer(inst, call, k, data, pid) ==
  ElCall(inst, call, k, <<>>, "ok", data, srvNominations[pid], pid)

\* ------------------------------------------------------------ ElectionManager
\* A state setter of an instance.
SetEl(f, inst, v) == [f EXCEPT ![inst] = v]

\* The component mounts: the socket effect registers the handlers and
\* initializePositions() runs up to its `await fetch(.../positions?...)`.
ElMount(i) ==
  /\ ~elMounted[i]
  /\ ~initializingRef[i]
  /\ elMounted' = [elMounted EXCEPT ![i] = TRUE]
  /\ elListeners' = elListeners \cup {i}
  /\ initializingRef' = [initializingRef EXCEPT ![i] = TRUE]
  /\ elLoading' = [elLoading EXCEPT ![i] = TRUE]
  /\ elCalls' = elCalls \cup {GetPositionsAnswer(i)}
  /\ fetchUser(i)
  /\ UNCHANGED <<srvPositions, srvNominations, elEvents, createdPositions, nominations,
                 elError, rejectedExisting>>
  /\ UNCHANGED electionPeers

\* The view leaves the item (next()/previous()) once the instance awaits no
\* answer: the instance is discarded, so a later mount starts from a fresh
\* one.  Its cleanup calls off(event), which removes every listener of the
\* event.
ElUnmount(i) ==
  /\ elMounted[i]
  /\ \A r \in elCalls : r.inst # i
  /\ elMounted' = [elMounted EXCEPT ![i] = FALSE]
  /\ elListeners' = {}
  /\ UNCHANGED elCalls
  /\ createdPositions' = [createdPositions EXCEPT ![i] = <<>>]
  /\ nominations' = [nominations EXCEPT ![i] = [q \in PositionIds |-> NoNominations]]
  /\ elLoading' = [elLoading EXCEPT ![i] = FALSE]
  /\ elError' = [elError EXCEPT ![i] = ""]
  /\ initializingRef' = [initializingRef EXCEPT ![i] = FALSE]
  /\ rejectedExisting' = [rejectedExisting EXCEPT ![i] = FALSE]
  /\ discardUser(i)
  /\ UNCHANGED <<srvPositions, srvNominations, elEvents>>
  /\ UNCHANGED electionPeers

\* initializePositions issues the POST for the k-th configured name.
\* It replaces the answer r the function was awaiting.
CreatePositionCall(r, k, created) ==
  \E res \in CreateOutcomes(Names[k]) :
    /\ SrvCreatePosition(Names[k], res)
    /\ elCalls' = (elCalls \ {r}) \cup
         {ElCall(r.inst, "createPosition", k, created, res, <<>>, NoNominations,
                 NextPositionId)}

\* initializePositions resumes after the GET: with positions it stores them
\* and loads the nominations of each in turn, with none it creates one
\* position per configured name in turn; a failed fetch sets the error.
GetPositionsResume(r, ok) ==
  /\ r \in elCalls /\ r.call = "getPositions"
  /\ IF ~ok
     THEN /\ elCalls' = elCalls \ {r}
          /\ elError' = SetEl(elError, r.inst, "Failed to initialize positions")
          /\ elLoading' = SetEl(elLoading, r.inst, FALSE)
          /\ UNCHANGED <<srvPositions, elEvents, createdPositions>>
     ELSE IF Len(r.data) > 0
     THEN /\ createdPositions' = SetEl(createdPositions, r.inst, r.data)
          /\ elCalls' = (elCalls \ {r}) \cup
               {GetNominationsAnswer(r.inst, "initLoadNominations", 1, r.data,
                                     r.data[1].position_id)}
          /\ UNCHANGED <<srvPositions, elEvents, elError, elLoading>>
     ELSE /\ CreatePositionCall(r, 1, <<>>)
          /\ UNCHANGED <<createdPositions, elError, elLoading>>
  /\ UNCHANGED <<srvNominations, elMounted, elListeners, nominations, initializingRef,
                 rejectedExisting>>
  /\ UNCHANGED otherThanElection

GetPositionsArrives(r) == \E ok \in BOOLEAN : GetPositionsResume(r, ok)

\* initializePositions resumes after `await loadNominations(pos.position_id)`
\* (whose failure is swallowed) and goes on to the next position or finishes.
InitLoadNominationsResume(r, ok) ==
  /\ r \in elCalls /\ r.call = "initLoadNominations"
  /\ nominations' =
       IF ok
       THEN [nominations EXCEPT ![r.inst][r.pid] = r.noms]
       ELSE nominations
  /\ IF r.k < Len(r.data)
     THEN /\ elCalls' = (elCalls \ {r}) \cup
               {GetNominationsAnswer(r.inst, "initLoadNominations", r.k + 1, r.data,
                                     r.data[r.k + 1].position_id)}
          /\ UNCHANGED elLoading
     ELSE /\ elCalls' = elCalls \ {r}
          /\ elLoading' = SetEl(elLoading, r.inst, FALSE)
  /\ UNCHANGED <<srvPositions, srvNominations, elEvents, elMounted, elListeners,
                 createdPositions, elError, initializingRef, rejectedExisting>>
  /\ UNCHANGED otherThanElection

InitLoadNominationsArrives(r) == \E ok \in BOOLEAN : InitLoadNominationsResume(r, ok)

\* initializePositions resumes after a POST: `!response.ok` throws, which sets
\* the error and ends the loading; otherwise the next name is created, or
\* after the last one the created positions are stored.
CreatePositionResume(r) ==
  /\ r \in elCalls /\ r.call = "createPosition"
  /\ IF r.res # "created"
     THEN /\ elCalls' = elCalls \ {r}
          /\ elError' = SetEl(elError, r.inst, "Failed to create position")
          /\ elLoading' = SetEl(elLoading, r.inst, FALSE)
          /\ rejectedExisting' = SetEl(rejectedExisting, r.inst, r.res = "exists")
          /\ UNCHANGED <<srvPositions, elEvents, createdPositions>>
     ELSE IF r.k < Len(Names)
     THEN /\ CreatePositionCall(r, r.k + 1,
                                Append(r.created, Position(r.pid, Names[r.k])))
          /\ UNCHANGED <<createdPositions, elError, elLoading, rejectedExisting>>
     ELSE /\ elCalls' = elCalls \ {r}
          /\ createdPositions' = SetEl(createdPositions, r.inst,
                                       Append(r.created, Position(r.pid, Names[r.k])))
          /\ elLoading' = SetEl(elLoading, r.inst, FALSE)
          /\ UNCHANGED <<srvPositions, elEvents, elError, rejectedExisting>>
  /\ UNCHANGED <<srvNominations, elMounted, elListeners, nominations, initializingRef>>
  /\ UNCHANGED otherThanElection

\* The position_created handler storing the event's position over the entry
\* it holds.
PositionCreatedReplace(prev, pos) ==
  IF \E k \in 1 .. Len(prev) : prev[k].position_id = pos.position_id
  THEN [k \in 1 .. Len(prev) |->
          IF prev[k].position_id = pos.position_id THEN pos ELSE prev[k]]
  ELSE Append(prev, pos)

\* setCreatedPositions(prev => ...) of the position_created handler.
PositionCreatedMerge(prev, pos) ==
  IF \E k \in 1 .. Len(prev) : prev[k].position_id = pos.position_id
  THEN prev
  ELSE Append(prev, pos)

\* The channel delivers a position_created event to a registered handler.
onPositionCreated(i, data) ==
  /\ i \in elListeners
  /\ data.type = "position_created"
  /\ createdPositions' = [createdPositions EXCEPT ![i] = PositionCreatedMerge(@, data.position)]
  /\ UNCHANGED <<srvPositions, srvNominations, elEvents, elCalls, elMounted, elListeners,
                 nominations, elLoading, elError, initializingRef, rejectedExisting>>
  /\ UNCHANGED otherThanElection

ItemIndexes == 0 .. MaxItems - 1

\* The meeting moves to another election item: CurrentAgendaItem renders the
\* same ElectionManager with another agendaItemIndex, so the effect keyed on
\* agendaItemId runs initializePositions() again, which returns at once when
\* initializingRef.current is set.
AgendaItemChanges ==
  /\ elMounted["current"]
  /\ \E index \in ItemIndexes \ {agendaItemIndex} : agendaItemIndex' = index
  /\ IF initializingRef["current"]
     THEN UNCHANGED <<elCalls, elLoading, initializingRef>>
     ELSE /\ initializingRef' = [initializingRef EXCEPT !["current"] = TRUE]
          /\ elLoading' = [elLoading EXCEPT !["current"] = TRUE]
          /\ elCalls' = elCalls \cup {GetPositionsAnswer("current")}
  /\ UNCHANGED <<srvPositions, srvNominations, elEvents, elMounted, elListeners,
                 createdPositions, nominations, elError, rejectedExisting, srvItemOf>>
  /\ UNCHANGED <<motionVars, voteVars, meetingVars, userVars, editVars, resultVars,
                 channelVars, authVars, roomVars,
                 tokenVars>>

\* Another participant's view creates a position for an agenda item of the
\* meeting: position_created is emitted to the meeting's room.
RemoteCreatePositionFor(item) ==
  /\ Len(srvPositions) < MaxPositions
  /\ SrvCreatePosition(Names[1], "created")
  /\ srvItemOf' = [srvItemOf EXCEPT ![NextPositionId] = item]
  /\ UNCHANGED <<srvNominations, elCalls, elMounted, elListeners, createdPositions,
                 nominations, elLoading, elError, initializingRef, rejectedExisting,
                 agendaItemIndex>>
  /\ UNCHANGED <<motionVars, voteVars, meetingVars, userVars, editVars, resultVars,
                 channelVars, authVars, roomVars,
                 tokenVars>>

MountElection == \E i \in Insts : ElMount(i)

LeaveElection == \E i \in Insts : ElUnmount(i)

DeliverPositionCreated == \E i \in Insts, data \in elEvents : onPositionCreated(i, data)

InitElectionInit ==
  /\ InitElectionIdle
  /\ InitMotionIdle
  /\ InitVoteIdle
  /\ InitMeetingIdle
  /\ InitUserIdle
  /\ InitEditIdle
  /\ InitAuxIdle

ElectionInitAnswer ==
  \E r \in elCalls :
    \/ GetPositionsArrives(r)
    \/ InitLoadNominationsArrives(r)
    \/ CreatePositionResume(r)

NextElectionInit ==
  \/ MountElection
  \/ LeaveElection
  \/ DeliverPositionCreated
  \/ ElectionInitAnswer

SpecElectionInit == InitElectionInit /\ [][NextElectionInit]_vars

\* --- nominations and closing
CanElCall == Cardinality(elCalls) < MaxElCalls

IsOpenAtSrv(pid) ==
  \E k \in 1 .. Len(srvPositions) :
    srvPositions[k].position_id = pid /\ srvPositions[k].is_open

\* A position the instance lists and shows as open, once it has loaded.
ShowsOpen(i, pid) ==
  /\ elMounted[i] /\ ~elLoading[i]
  /\ \E k \in 1 .. Len(createdPositions[i]) :
       createdPositions[i][k].position_id = pid /\ createdPositions[i][k].is_open

\* The collaborator records a nomination or its acceptance and emits the event.
SrvSetNomination(pid, u, status, type) ==
  /\ srvNominations' = [srvNominations EXCEPT ![pid][u] = status]
  /\ elEvents' = elEvents \cup {[type |-> type, position_id |-> pid]}

\* Another participant nominates a user, or a nominee accepts on another client.
RemoteNominate ==
  \E pid \in PositionIds, u \in Users :
    /\ IsOpenAtSrv(pid)
    /\ srvNominations[pid][u] = "none"
    /\ SrvSetNomination(pid, u, "pending", "nomination_added")
    /\ UNCHANGED <<srvPositions, elCalls, elMounted, elListeners, createdPositions,
                   nominations, elLoading, elError, initializingRef, rejectedExisting>>
    /\ UNCHANGED otherThanElection

RemoteAccept ==
  \E pid \in PositionIds, u \in Users :
    /\ IsOpenAtSrv(pid)
    /\ srvNominations[pid][u] = "pending"
    /\ SrvSetNomination(pid, u, "accepted", "nomination_accepted")
    /\ UNCHANGED <<srvPositions, elCalls, elMounted, elListeners, createdPositions,
                   nominations, elLoading, elError, initializingRef, rejectedExisting>>
    /\ UNCHANGED otherThanElection

\* The nomination_added / nomination_accepted handlers: loadNominations(id) up
\* to its `await fetch(.../nominations)`.
onNominationEvent(i, data) ==
  /\ i \in elListeners
  /\ data.type \in {"nomination_added", "nomination_accepted"}
  /\ CanElCall
  /\ elCalls' = elCalls \cup
       {GetNominationsAnswer(i, "loadNominations", 0, <<>>, data.position_id)}
  /\ UNCHANGED <<srvPositions, srvNominations, elEvents, elMounted, elListeners,
                 createdPositions, nominations, elLoading, elError, initializingRef,
                 rejectedExisting>>
  /\ UNCHANGED otherThanElection

\* loadNominations resumes: an answer that is ok replaces the position's list.
LoadNominationsResume(r, ok) ==
  /\ r \in elCalls /\ r.call = "loadNominations"
  /\ elCalls' = elCalls \ {r}
  /\ nominations' =
       IF ok /\ elMounted[r.inst]
       THEN [nominations EXCEPT ![r.inst][r.pid] = r.noms]
       ELSE nominations
  /\ UNCHANGED <<srvPositions, srvNominations, elEvents, elMounted, elListeners,
                 createdPositions, elLoading, elError, initializingRef,
                 rejectedExisting>>
  /\ UNCHANGED otherThanElection

LoadNominationsArrives(r) == \E ok \in BOOLEAN : LoadNominationsResume(r, ok)

\* handleNominate up to its POST; the collaborator accepts a user not yet
\* nominated for an open position, or refuses.
handleNominate(i, pid, u) ==
  /\ ShowsOpen(i, pid)
  /\ CanElCall
  /\ \E ok \in BOOLEAN :
       /\ ok => (IsOpenAtSrv(pid) /\ srvNominations[pid][u] = "none")
       /\ IF ok
          THEN SrvSetNomination(pid, u, "pending", "nomination_added")
          ELSE UNCHANGED <<srvNominations, elEvents>>
       /\ elCalls' = elCalls \cup
            {ElCall(i, "nominate", 0, <<>>, IF ok THEN "ok" ELSE "error", <<>>,
                    NoNominations, pid)}
  /\ UNCHANGED <<srvPositions, elMounted, elListeners, createdPositions, nominations,
                 elLoading, elError, initializingRef, rejectedExisting>>
  /\ UNCHANGED otherThanElection

\* handleAcceptNomination up to its POST.  The Accept button is rendered next
\* to every nomination the instance knows as not accepted.
handleAcceptNomination(i, pid, u) ==
  /\ ShowsOpen(i, pid)
  /\ nominations[i][pid][u] = "pending"
  /\ CanElCall
  /\ \E ok \in BOOLEAN :
       /\ ok => (IsOpenAtSrv(pid) /\ srvNominations[pid][u] = "pending")
       /\ IF ok
          THEN SrvSetNomination(pid, u, "accepted", "nomination_accepted")
          ELSE UNCHANGED <<srvNominations, elEvents>>
       /\ elCalls' = elCalls \cup
            {ElCall(i, "accept", 0, <<>>, IF ok THEN "ok" ELSE "error", <<>>,
                    NoNominations, pid)}
  /\ UNCHANGED <<srvPositions, elMounted, elListeners, createdPositions, nominations,
                 elLoading, elError, initializingRef, rejectedExisting>>
  /\ UNCHANGED otherThanElection

\* handleNominate / handleAcceptNomination resume: on success they reload the
\* nominations, a refusal sets the error.
NominationPostResume(r) ==
  /\ r \in elCalls /\ r.call \in {"nominate", "accept"}
  /\ IF r.res = "ok"
     THEN /\ elCalls' = (elCalls \ {r}) \cup
               {GetNominationsAnswer(r.inst, "loadNominations", 0, <<>>, r.pid)}
          /\ UNCHANGED elError
     ELSE /\ elCalls' = elCalls \ {r}
          /\ elError' = IF elMounted[r.inst]
                        THEN SetEl(elError, r.inst, "Failed to " \o r.call)
                        ELSE elError
  /\ UNCHANGED <<srvPositions, srvNominations, elEvents, elMounted, elListeners,
                 createdPositions, nominations, elLoading, initializingRef,
                 rejectedExisting>>
  /\ UNCHANGED otherThanElection

\* The nominations the instance counts with the wrong filter.
nominationCount(i, pid) ==
  Cardinality({u \in Users : nominations[i][pid][u] # "none"})

\* posNominations.filter(n => n.accepted).length
acceptedCount(i, pid) ==
  Cardinality({u \in Users : nominations[i][pid][u] = "accepted"})

\* The Close button of an open position is enabled.
CloseEnabled(i, pid) == ShowsOpen(i, pid) /\ ~(acceptedCount(i, pid) < 2)

\* The collaborator closes the position: a poll is created for it.
SrvClosePosition(pid) ==
  /\ srvPositions' = [k \in 1 .. Len(srvPositions) |->
       IF srvPositions[k].position_id = pid
       THEN [srvPositions[k] EXCEPT !.is_open = FALSE, !.poll_id = pid]
       ELSE srvPositions[k]]
  /\ elEvents' = elEvents \cup
       {[type |-> "position_closed", position_id |-> pid, poll_id |-> pid]}

\* A manager on another client closes a position that has two accepted
\* candidates.
RemoteClosePosition ==
  \E pid \in PositionIds :
    /\ IsOpenAtSrv(pid)
    /\ Cardinality({u \in Users : srvNominations[pid][u] = "accepted"}) >= 2
    /\ SrvClosePosition(pid)
    /\ UNCHANGED <<srvNominations, elCalls, elMounted, elListeners, createdPositions,
                   nominations, elLoading, elError, initializingRef, rejectedExisting>>
    /\ UNCHANGED otherThanElection

\* handleClosePosition up to its POST.
handleClosePosition(i, pid) ==
  /\ CloseEnabled(i, pid)
  /\ CanElCall
  /\ \E ok \in BOOLEAN :
       /\ ok => IsOpenAtSrv(pid)
       /\ IF ok THEN SrvClosePosition(pid) ELSE UNCHANGED <<srvPositions, elEvents>>
       /\ elCalls' = elCalls \cup
            {ElCall(i, "close", 0, <<>>, IF ok THEN "ok" ELSE "error", <<>>,
                    NoNominations, pid)}
  /\ UNCHANGED <<srvNominations, elMounted, elListeners, createdPositions, nominations,
                 elLoading, elError, initializingRef, rejectedExisting>>
  /\ UNCHANGED otherThanElection

\* setCreatedPositions(prev => prev.map(...)) of handleClosePosition and of
\* the position_closed handler.
PositionClosedMap(prev, pid, pollid) ==
  [k \in 1 .. Len(prev) |->
     IF prev[k].position_id = pid
     THEN [prev[k] EXCEPT !.is_open = FALSE, !.poll_id = pollid]
     ELSE prev[k]]

ClosePositionResumeAnyway(r) ==
  /\ r \in elCalls /\ r.call = "close"
  /\ elCalls' = elCalls \ {r}
  /\ createdPositions' = [createdPositions EXCEPT ![r.inst] =
       PositionClosedMap(@, r.pid, r.pid)]
  /\ elError' = IF r.res = "ok" THEN elError
                ELSE SetEl(elError, r.inst, "Failed to close position")
  /\ UNCHANGED <<srvPositions, srvNominations, elEvents, elMounted, elListeners,
                 nominations, elLoading, initializingRef, rejectedExisting>>
  /\ UNCHANGED otherThanElection

\* handleClosePosition resumes: success marks the position closed with the
\* poll of the answer, a refusal sets the error.
ClosePositionResume(r) ==
  /\ r \in elCalls /\ r.call = "close"
  /\ elCalls' = elCalls \ {r}
  /\ IF ~elMounted[r.inst]
     THEN UNCHANGED <<createdPositions, elError>>
     ELSE IF r.res = "ok"
     THEN /\ createdPositions' = [createdPositions EXCEPT ![r.inst] =
               PositionClosedMap(@, r.pid, r.pid)]
          /\ UNCHANGED elError
     ELSE /\ elError' = SetEl(elError, r.inst, "Failed to close position")
          /\ UNCHANGED createdPositions
  /\ UNCHANGED <<srvPositions, srvNominations, elEvents, elMounted, elListeners,
                 nominations, elLoading, initializingRef, rejectedExisting>>
  /\ UNCHANGED otherThanElection

\* The channel delivers a position_closed event to a registered handler.
onPositionClosed(i, data) ==
  /\ i \in elListeners
  /\ data.type = "position_closed"
  /\ createdPositions' = [createdPositions EXCEPT ![i] =
       PositionClosedMap(@, data.position_id, data.poll_id)]
  /\ UNCHANGED <<srvPositions, srvNominations, elEvents, elCalls, elMounted, elListeners,
                 nominations, elLoading, elError, initializingRef, rejectedExisting>>
  /\ UNCHANGED otherThanElection

\* A manager's session, which renders the agenda list instance only, on an
\* item whose position exists.
InitElectionClose ==
  /\ srvPositions = <<Position(1, Names[1])>>
  /\ srvNominations = [q \in PositionIds |-> NoNominations]
  /\ InitElectionLocal
  /\ InitMotionIdle
  /\ InitVoteIdle
  /\ InitMeetingIdle
  /\ InitUserIdle
  /\ InitEditIdle
  /\ InitAuxIdle

MountList == ElMount("list")

LeaveList == ElUnmount("list")

DeliverNominationEvent == \E data \in elEvents : onNominationEvent("list", data)

DeliverPositionClosed == \E data \in elEvents : onPositionClosed("list", data)

Nominate == \E pid \in PositionIds, u \in Users : handleNominate("list", pid, u)

AcceptNomination ==
  \E pid \in PositionIds, u \in Users : handleAcceptNomination("list", pid, u)

ClosePosition == \E pid \in PositionIds : handleClosePosition("list", pid)

ElectionCloseAnswer ==
  \E r \in elCalls :
    \/ GetPositionsArrives(r)
    \/ InitLoadNominationsArrives(r)
    \/ LoadNominationsArrives(r)
    \/ NominationPostResume(r)
    \/ ClosePositionResume(r)

NextElectionClose ==
  \/ MountList
  \/ LeaveList
  \/ RemoteNominate
  \/ RemoteAccept
  \/ DeliverNominationEvent
  \/ DeliverPositionClosed
  \/ Nominate
  \/ AcceptNomination
  \/ ClosePosition
  \/ ElectionCloseAnswer

SpecElectionClose == InitElectionClose /\ [][NextElectionClose]_vars

\* ------------------------------------------- user and vote capability
ViewMounted(v) == IF v = "motion" THEN mounted = "yes" ELSE elMounted[v]

\* The body of a getUserRoles answer: the role array itself, an object that
\* holds it under `roles`, or anything else.
RolesShapes == {"array", "object", "other"}

RolesAnswer(v, shape) ==
  UserCall(v, "getUserRoles", <<shape, srvRoles>>)

\* roleList of checkVotePermission.
roleList(roles) == IF roles[1] \in {"array", "object"} THEN roles[2] ELSE {}

\* roleList.includes(...) with any role counted.
IncludesAnyRole(roles) == roleList(roles) # {}

\* roleList.includes('vote')
IncludesVote(roles) == "vote" \in roleList(roles)

\* fetchUser resumes: a profile sets currentUsername, and the render that
\* follows runs checkVotePermission up to `await getUserRoles(...)`.
\* getUserProfile returns null for a session that is not authenticated or
\* whose profile fails to load.
ProfileResume(c, profile) ==
  /\ c \in userCalls /\ c.call = "getUserProfile"
  /\ IF profile /\ ViewMounted(c.view)
     THEN /\ viewUsername' = [viewUsername EXCEPT ![c.view] = currentUsername]
          /\ \E shape \in RolesShapes :
               userCalls' = (userCalls \ {c}) \cup {RolesAnswer(c.view, shape)}
     ELSE /\ userCalls' = userCalls \ {c}
          /\ UNCHANGED viewUsername
  /\ UNCHANGED <<srvRoles, hasVotePermission>>
  /\ UNCHANGED otherThanUser

\* checkVotePermission resumes: the answer sets hasVotePermission, a failure
\* clears it.
RolesResume(c, ok) ==
  /\ c \in userCalls /\ c.call = "getUserRoles"
  /\ userCalls' = userCalls \ {c}
  /\ hasVotePermission' =
       IF ViewMounted(c.view)
       THEN [hasVotePermission EXCEPT ![c.view] = ok /\ IncludesVote(c.roles)]
       ELSE hasVotePermission
  /\ UNCHANGED <<srvRoles, viewUsername>>
  /\ UNCHANGED otherThanUser

UserAnswer ==
  \E c \in userCalls : \E ok \in BOOLEAN :
    \/ ProfileResume(c, ok)
    \/ RolesResume(c, ok)

\* What MotionManager renders: VoteManager or the notice replaces the list
\* while votingActive && activePollId.
MotionView ==
  IF votingActive /\ activePollId # NoPoll
  THEN IF hasVotePermission["motion"] THEN "VoteManager" ELSE "notice"
  ELSE "list"

\* What ElectionManager renders under a position card besides the
\* nomination controls.
PositionView(i, position) ==
  IF position.poll_id # NoPoll /\ ~position.is_open
  THEN IF hasVotePermission[i] THEN "VoteManager" ELSE "notice"
  ELSE "none"

\* --- the vote capability: a viewer who joins an item whose voting session
\* is in progress, and an election item whose position is ready to close.
InitVotePermission ==
  /\ srvMotions = [i \in Items |-> IF i = "A" THEN <<Motion(1, "other", "submitted")>>
                                   ELSE <<>>]
  /\ srvSession = [i \in Items |-> IF i = "A" THEN "in_progress" ELSE NoSession]
  /\ srvPoll = [i \in Items |-> NoPollRec]
  /\ srvRoles \in SUBSET {"manage", "vote"}
  /\ hasManagePermission = ("manage" \in srvRoles)
  /\ InitMotionLocal
  /\ srvPositions = <<Position(1, Names[1])>>
  /\ srvNominations = [q \in PositionIds |->
       IF q = 1 THEN [u \in Users |-> "accepted"] ELSE NoNominations]
  /\ InitElectionLocal
  /\ InitVoteIdle
  /\ InitMeetingIdle
  /\ userCalls = {}
  /\ viewUsername = [v \in Views |-> ""]
  /\ hasVotePermission = [v \in Views |-> FALSE]
  /\ InitEditIdle
  /\ InitAuxIdle

VotePermissionAnswer ==
  \/ \E r \in motionCalls : FetchMotionsAnswer(r) \/ CheckForPollAnswer(r)
  \/ \E r \in elCalls : GetPositionsArrives(r) \/ InitLoadNominationsArrives(r)
  \/ UserAnswer

NextVotePermission ==
  \/ Mount
  \/ ServerOpenPoll
  \/ ServerClosePoll
  \/ MountList
  \/ LeaveList
  \/ RemoteClosePosition
  \/ DeliverPositionClosed
  \/ VotePermissionAnswer

SpecVotePermission == InitVotePermission /\ [][NextVotePermission]_vars

\* ------------------------------------------------ MotionManager, editing
\* motionsLoading: the list, with its Edit and Save buttons, is replaced by
\* "Loading motions..." while fetchMotions awaits its answer.
MotionsLoading ==
  \E r \in motionCalls : r.call = "getMotions" /\ r.cont = "fetchMotions"

ShowsMotionRows == ShowsMotionList /\ ~MotionsLoading

\* A manager on another client starts voting on an item that has motions.
RemoteStartVoting ==
  \E item \in Items :
    /\ srvSession[item] = NoSession
    /\ Len(srvMotions[item]) > 0
    /\ srvSession' = [srvSession EXCEPT ![item] = "in_progress"]
    /\ UNCHANGED <<srvMotions, srvPoll, motionEvents, motionCalls, motionLocal>>
    /\ UNCHANGED otherThanMotion

\* The Edit button of a row that is not under edit: rendered for the owner
\* while no voting session is known.
EditOffered(k) ==
  /\ ShowsMotionRows
  /\ k \in 1 .. Len(motions)
  /\ editingMotionId # motions[k].motion_uuid
  /\ motions[k].owner = viewUsername["motion"]
  /\ votingSessionState = NoSession

handleEditMotion(k) ==
  /\ EditOffered(k)
  /\ editingMotionId' = motions[k].motion_uuid
  /\ editMotionText' = motions[k].motion
  /\ motionError' = ""
  /\ UNCHANGED <<srvMotionState, motionCalls, mounted, motionItemId,
                 hasManagePermission, motions, votingSessionState, activePollId,
                 votingActive, interval, timeouts, viaEvent, dupSeen>>
  /\ UNCHANGED <<motionPeers, userVars>>

\* The row under edit is rendered as the form with Save and Cancel.
EditFormShown(k) ==
  /\ ShowsMotionRows
  /\ k \in 1 .. Len(motions)
  /\ editingMotionId = motions[k].motion_uuid

\* onChange of the edit textarea.
EditTexts == {"", "edited"}

ChangeEditText ==
  /\ \E k \in 1 .. Len(motions) : EditFormShown(k)
  /\ \E t \in EditTexts : editMotionText' = t
  /\ UNCHANGED editingMotionId
  /\ UNCHANGED <<motionVars, motionPeers, userVars>>

handleCancelEdit ==
  /\ \E k \in 1 .. Len(motions) : EditFormShown(k)
  /\ editingMotionId' = NoMotion
  /\ editMotionText' = ""
  /\ motionError' = ""
  /\ UNCHANGED <<srvMotionState, motionCalls, mounted, motionItemId,
                 hasManagePermission, motions, votingSessionState, activePollId,
                 votingActive, interval, timeouts, viaEvent, dupSeen>>
  /\ UNCHANGED <<motionPeers, userVars>>

\* PATCH /items/{id}/motions/{uuid}: the collaborator accepts the owner's
\* edit of a motion of the item while the item has no voting session.
UpdateAccepted(item, uuid) ==
  /\ srvSession[item] = NoSession
  /\ \E j \in 1 .. Len(srvMotions[item]) :
       /\ srvMotions[item][j].motion_uuid = uuid
       /\ srvMotions[item][j].owner = currentUsername

SrvIndex(item, uuid) ==
  CHOOSE j \in 1 .. Len(srvMotions[item]) : srvMotions[item][j].motion_uuid = uuid

UpdateMotionAnswer(item, uuid, ok) ==
  Answer("updateMotion", "handleSaveEdit", item, ok, <<>>, NoSession,
         [poll_uuid |-> uuid, poll_state |-> "none"])

\* handleSaveEdit: a blank text is refused with an error; otherwise up to
\* `await updateMotion(motionItemId, motionId, text)`.
handleSaveEdit(k) ==
  /\ EditFormShown(k)
  /\ IF editMotionText = ""
     THEN /\ motionError' = "Please enter motion text"
          /\ UNCHANGED <<srvMotions, motionEvents, motionCalls>>
     ELSE /\ Idle("handleSaveEdit", motionItemId)
          /\ CanCall(1)
          /\ \E ok \in BOOLEAN :
               /\ ok => UpdateAccepted(motionItemId, motions[k].motion_uuid)
               /\ IF ok
                  THEN SrvUpdateMotion(motionItemId,
                                       SrvIndex(motionItemId, motions[k].motion_uuid))
                  ELSE UNCHANGED <<srvMotions, motionEvents>>
               /\ motionCalls' = motionCalls \cup
                    {UpdateMotionAnswer(motionItemId, motions[k].motion_uuid, ok)}
          /\ UNCHANGED motionError
  /\ UNCHANGED <<srvSession, srvPoll, mounted, motionItemId, hasManagePermission,
                 motions, votingSessionState, activePollId, votingActive, interval,
                 timeouts, viaEvent, dupSeen>>
  /\ UNCHANGED <<motionPeers, userVars, editVars>>

\* handleSaveEdit resumes: success closes the form and re-fetches the list,
\* a refusal sets the error.
SaveEditAnswer(r) ==
  /\ r \in motionCalls /\ r.call = "updateMotion"
  /\ IF r.ok
     THEN /\ motionCalls' = (motionCalls \ {r}) \cup
               {GetMotionsAnswer("handleSaveEdit", r.item)}
          /\ editingMotionId' = SetIfMounted(NoMotion, editingMotionId)
          /\ editMotionText' = SetIfMounted("", editMotionText)
          /\ motionError' = SetIfMounted("", motionError)
     ELSE /\ motionCalls' = motionCalls \ {r}
          /\ motionError' = SetIfMounted("Failed to update motion", motionError)
          /\ UNCHANGED editVars
  /\ UNCHANGED <<srvMotionState, mounted, motionItemId, hasManagePermission, motions,
                 votingSessionState, activePollId, votingActive, interval, timeouts,
                 viaEvent, dupSeen>>
  /\ UNCHANGED <<motionPeers, userVars>>

\* handleSaveEdit resumes after its re-fetch.
RefetchAfterEditResume(r, ok) ==
  /\ r \in motionCalls /\ r.call = "getMotions" /\ r.cont = "handleSaveEdit"
  /\ motionCalls' = motionCalls \ {r}
  /\ motions' = SetIfMounted(IF ok THEN r.data ELSE motions, motions)
  /\ motionError' = SetIfMounted(IF ok THEN motionError ELSE "Failed to update motion",
                                 motionError)
  /\ viaEvent' = SetIfMounted(IF ok THEN {} ELSE viaEvent, viaEvent)
  /\ UNCHANGED <<srvMotionState, mounted, motionItemId, hasManagePermission,
                 votingSessionState, activePollId, votingActive, interval, timeouts,
                 dupSeen>>
  /\ UNCHANGED otherThanMotion

RefetchAfterEditAnswer(r) == \E ok \in BOOLEAN : RefetchAfterEditResume(r, ok)

\* --- editing: the viewer owns the motion of the item; a manager elsewhere
\* may start voting at any time.
InitMotionEdit ==
  /\ srvMotions = [i \in Items |->
       IF i = "A" THEN <<Motion(1, currentUsername, "submitted")>> ELSE <<>>]
  /\ srvSession = [i \in Items |-> NoSession]
  /\ srvPoll = [i \in Items |-> NoPollRec]
  /\ hasManagePermission = FALSE
  /\ InitMotionLocal
  /\ InitVoteIdle
  /\ InitElectionIdle
  /\ InitMeetingIdle
  /\ InitUserIdle
  /\ InitEditIdle
  /\ InitAuxIdle

EditMotion == \E k \in 1 .. Len(motions) : handleEditMotion(k)

SaveEdit == \E k \in 1 .. Len(motions) : handleSaveEdit(k)

MotionEditAnswer ==
  \/ \E r \in motionCalls :
       \/ FetchMotionsAnswer(r)
       \/ CheckForPollAnswer(r)
       \/ SaveEditAnswer(r)
       \/ RefetchAfterEditAnswer(r)
  \/ UserAnswer

NextMotionEdit ==
  \/ Mount
  \/ RemoteStartVoting
  \/ IntervalFires
  \/ DeliverMotionUpdated
  \/ EditMotion
  \/ ChangeEditText
  \/ handleCancelEdit
  \/ SaveEdit
  \/ MotionEditAnswer

SpecMotionEdit == InitMotionEdit /\ [][NextMotionEdit]_vars

\* --- the election controls by capability: MeetingRoom has resolved
\* hasManagePermission either way and passes it to the agenda list instance
\* as a prop; the item's position exists.
InitElectionViewer ==
  /\ srvPositions = <<Position(1, Names[1])>>
  /\ srvNominations = [q \in PositionIds |-> NoNominations]
  /\ InitElectionLocal
  /\ InitMotionIdle
  /\ InitVoteIdle
  /\ srvMeeting = [current_item |-> Unset, items |-> 0]
  /\ srvManage \in BOOLEAN
  /\ meetEvents = {}
  /\ meetCalls = {}
  /\ roomMounted = TRUE
  /\ meeting = NoMeeting
  /\ meetLoading = FALSE
  /\ meetError = ""
  /\ roomManagePermission = srvManage
  /\ InitUserIdle
  /\ InitEditIdle
  /\ InitAuxIdle

SpecElectionViewer == InitElectionViewer /\ [][NextElectionClose]_vars

\* A position the instance lists and shows as closed, once it has loaded.
ShownClosed(i, pid) ==
  /\ elMounted[i] /\ ~elLoading[i]
  /\ \E k \in 1 .. Len(createdPositions[i]) :
       createdPositions[i][k].position_id = pid /\ ~createdPositions[i][k].is_open

\* --- a position's life in one view: the instance initializes the item, by
\* the snapshot or by creating the positions, while other participants
\* nominate, accept and close and the position events arrive in any order.
\* The nominations the view holds are those its initialization loaded.
InitElectionLife ==
  /\ srvPositions \in {<<>>, <<Position(1, Names[1])>>}
  /\ srvNominations = [q \in PositionIds |-> NoNominations]
  /\ InitElectionLocal
  /\ InitMotionIdle
  /\ InitVoteIdle
  /\ InitMeetingIdle
  /\ InitUserIdle
  /\ InitEditIdle
  /\ InitAuxIdle

DeliverPositionCreatedToList == \E data \in elEvents : onPositionCreated("list", data)

ElectionLifeAnswer ==
  \E r \in elCalls :
    \/ GetPositionsArrives(r)
    \/ InitLoadNominationsArrives(r)
    \/ CreatePositionResume(r)
    \/ ClosePositionResume(r)

NextElectionLife ==
  \/ MountList
  \/ LeaveList
  \/ RemoteNominate
  \/ RemoteAccept
  \/ RemoteClosePosition
  \/ DeliverPositionCreatedToList
  \/ DeliverPositionClosed
  \/ ClosePosition
  \/ ElectionLifeAnswer

SpecElectionLife == InitElectionLife /\ [][NextElectionLife]_vars

\* ------------------------------------- collaborator: meeting, permission service
\* An answer in flight; `user` is the username the closure that awaits it
\* captured.
MeetCall(call, cont, index, ok, data, manage) ==
  [call |-> call, cont |-> cont, index |-> index, ok |-> ok, data |-> data,
   manage |-> manage, user |-> authUser]

\* The roles of a user for the meeting include 'manage'.
HoldsManage(user) == user = currentUsername /\ srvManage

\* GET /meetings/{id} as the collaborator answers it now.
GetDetailsAnswer(cont) == MeetCall("getDetails", cont, Unset, TRUE, srvMeeting, FALSE)

\* GET the roles of a user as the collaborator answers it.
GetUserRolesAnswer(cont, user) ==
  [MeetCall("getUserRoles", cont, Unset, TRUE, NoMeeting, HoldsManage(user))
     EXCEPT !.user = user]

\* The effect of MeetingRoom: fetchMeeting() up to `await getDetails(...)`
\* and refetchPermissionsOnAuthChange() up to its `await getUserRoles(...)`,
\* which it reaches only with a username.
RoomEffectCalls(user) ==
  {[GetDetailsAnswer("fetchMeeting") EXCEPT !.user = user]} \cup
  (IF user # NoUser
   THEN {GetUserRolesAnswer("refetchPermissionsOnAuthChange", user)} ELSE {})

\* The meeting changes at the collaborator, which emits meeting_updated.
SrvSetMeeting(m) ==
  /\ srvMeeting' = m
  /\ meetEvents' = meetEvents \cup {m}

meetingLocal == <<roomMounted, meeting, meetLoading, meetError, roomManagePermission>>

\* A manager on another client adds an agenda item.
RemoteAddItem ==
  /\ srvMeeting.items < MaxItems
  /\ SrvSetMeeting([srvMeeting EXCEPT !.items = @ + 1])
  /\ UNCHANGED <<srvManage, meetCalls, meetingLocal>>
  /\ UNCHANGED otherThanMeeting

\* A manager on another client moves to a neighbouring agenda item.
RemoteNavigate ==
  /\ \E ix \in 0 .. srvMeeting.items - 1 :
       /\ ix = srvMeeting.current_item + 1
            \/ (srvMeeting.current_item # Unset /\ ix = srvMeeting.current_item - 1)
       /\ SrvSetMeeting([srvMeeting EXCEPT !.current_item = ix])
  /\ UNCHANGED <<srvManage, meetCalls, meetingLocal>>
  /\ UNCHANGED otherThanMeeting

\* ---------------------------------------------------------------- MeetingRoom
\* The effect on mount: fetchMeeting() and refetchPermissionsOnAuthChange() up
\* to their first await, connect() and joinMeeting(meetingId), and the
\* meeting_updated handler is registered.
RoomMount ==
  /\ ~roomMounted
  /\ roomMounted' = TRUE
  /\ meetCalls' = meetCalls \cup RoomEffectCalls(authUser)
  /\ JoinChannel
  /\ UNCHANGED <<srvMeeting, srvManage, meetEvents, meeting, meetLoading, meetError,
                 roomManagePermission>>
  /\ UNCHANGED <<motionVars, voteVars, electionVars, userVars, editVars, resultVars,
                 authVars, extraVars>>

\* fetchMeeting resumes after getDetails: it stores the meeting and asks for
\* the user's roles; a failure sets the error and ends the loading.
FetchMeetingResume(r, ok) ==
  /\ r \in meetCalls /\ r.call = "getDetails" /\ r.cont = "fetchMeeting"
  /\ IF ok
     THEN /\ meeting' = r.data
          /\ IF r.user # NoUser
             THEN /\ meetCalls' =
                       (meetCalls \ {r}) \cup {GetUserRolesAnswer("fetchMeeting", r.user)}
                  /\ UNCHANGED meetLoading
             ELSE /\ meetCalls' = meetCalls \ {r}
                  /\ meetLoading' = FALSE
          /\ UNCHANGED meetError
     ELSE /\ meetCalls' = meetCalls \ {r}
          /\ meetError' = "An error occurred"
          /\ meetLoading' = FALSE
          /\ UNCHANGED meeting
  /\ UNCHANGED <<srvMeeting, srvManage, meetEvents, roomMounted, roomManagePermission>>
  /\ UNCHANGED otherThanMeeting

FetchMeetingArrives(r) == \E ok \in BOOLEAN : FetchMeetingResume(r, ok)

\* The roles arrive and a failed lookup leaves hasManagePermission as it was.
UserRolesResumeKeep(r, ok) ==
  /\ r \in meetCalls /\ r.call = "getUserRoles"
  /\ meetCalls' = meetCalls \ {r}
  /\ roomManagePermission' = IF ok THEN r.manage ELSE roomManagePermission
  /\ meetLoading' = IF r.cont = "fetchMeeting" THEN FALSE ELSE meetLoading
  /\ UNCHANGED <<srvMeeting, srvManage, meetEvents, roomMounted, meeting, meetError>>
  /\ UNCHANGED otherThanMeeting

\* The roles arrive: hasManagePermission is whether they include 'manage',
\* false on a failure; fetchMeeting then ends the loading.
UserRolesResume(r, ok) ==
  /\ r \in meetCalls /\ r.call = "getUserRoles"
  /\ meetCalls' = meetCalls \ {r}
  /\ roomManagePermission' = (ok /\ r.manage)
  /\ meetLoading' = IF r.cont = "fetchMeeting" THEN FALSE ELSE meetLoading
  /\ UNCHANGED <<srvMeeting, srvManage, meetEvents, roomMounted, meeting, meetError>>
  /\ UNCHANGED otherThanMeeting

UserRolesArrives(r) == \E ok \in BOOLEAN : UserRolesResume(r, ok)

\* The channel delivers a meeting_updated event: setMeeting(updatedMeeting).
onMeetingUpdated(data) ==
  /\ roomMounted /\ ChannelUp
  /\ meeting' = data
  /\ UNCHANGED <<srvMeeting, srvManage, meetEvents, meetCalls, roomMounted, meetLoading,
                 meetError, roomManagePermission>>
  /\ UNCHANGED otherThanMeeting

DeliverMeetingUpdated == \E data \in meetEvents : onMeetingUpdated(data)

\* meeting.items.length, shifted by one.
ItemsLengthOff(m) == m.items + 1

\* meeting.items.length
ItemsLength(m) == m.items

\* meeting.current_item ?? d
CurrentItemOr(d) == IF meeting.current_item = Unset THEN d ELSE meeting.current_item

\* The render shows the meeting, with the navigation controls if the agenda
\* has items.
ShowsNavigation ==
  /\ roomMounted /\ ~meetLoading /\ meetError = "" /\ meeting # NoMeeting
  /\ ItemsLength(meeting) > 0

NavIdle == \A r \in meetCalls : r.cont # "navigate"

\* PATCH /meetings/{id} {current_item}: the collaborator applies it or refuses.
UpdateCall(index) ==
  \E ok \in BOOLEAN :
    /\ ok => index < srvMeeting.items
    /\ IF ok
       THEN SrvSetMeeting([srvMeeting EXCEPT !.current_item = index])
       ELSE UNCHANGED <<srvMeeting, meetEvents>>
    /\ meetCalls' = meetCalls \cup
         {MeetCall("update", "navigate", index, ok, NoMeeting, FALSE)}

\* handleNextItem up to `await update(meetingId, {current_item: nextIndex})`.
\* The Next button is disabled on the last item.
handleNextItem ==
  /\ ShowsNavigation /\ NavIdle
  /\ ~(CurrentItemOr(-1) >= ItemsLength(meeting) - 1)
  /\ CurrentItemOr(-1) + 1 < ItemsLength(meeting)
  /\ UpdateCall(CurrentItemOr(-1) + 1)
  /\ UNCHANGED <<srvManage, meetingLocal>>
  /\ UNCHANGED otherThanMeeting

\* handlePreviousItem up to its `await update(...)`.  The Previous button is
\* disabled on the first item and while current_item is unset.
handlePreviousItem ==
  /\ ShowsNavigation /\ NavIdle
  /\ ~(CurrentItemOr(0) <= 0)
  /\ CurrentItemOr(0) - 1 >= 0
  /\ UpdateCall(CurrentItemOr(0) - 1)
  /\ UNCHANGED <<srvManage, meetingLocal>>
  /\ UNCHANGED otherThanMeeting

\* The handler resumes after update: it re-fetches the meeting; a refusal
\* sets the error.
UpdateResume(r) ==
  /\ r \in meetCalls /\ r.call = "update"
  /\ IF r.ok
     THEN /\ meetCalls' = (meetCalls \ {r}) \cup {GetDetailsAnswer("navigate")}
          /\ UNCHANGED meetError
     ELSE /\ meetCalls' = meetCalls \ {r}
          /\ meetError' = "Failed to move"
  /\ UNCHANGED <<srvMeeting, srvManage, meetEvents, roomMounted, meeting, meetLoading,
                 roomManagePermission>>
  /\ UNCHANGED otherThanMeeting

\* The handler resumes after its getDetails: setMeeting(data).
NavigateDetailsResume(r, ok) ==
  /\ r \in meetCalls /\ r.call = "getDetails" /\ r.cont = "navigate"
  /\ meetCalls' = meetCalls \ {r}
  /\ meeting' = IF ok THEN r.data ELSE meeting
  /\ meetError' = IF ok THEN meetError ELSE "Failed to move"
  /\ UNCHANGED <<srvMeeting, srvManage, meetEvents, roomMounted, meetLoading,
                 roomManagePermission>>
  /\ UNCHANGED otherThanMeeting

NavigateDetailsArrives(r) == \E ok \in BOOLEAN : NavigateDetailsResume(r, ok)

\* Any signed-in user may open the room of a meeting with or without the
\* manage role; the meeting's index is unset or within its agenda.
InitMeeting ==
  /\ srvMeeting \in [current_item : {Unset} \cup (0 .. MaxItems - 1), items : 0 .. MaxItems]
  /\ srvMeeting.current_item < srvMeeting.items
  /\ srvManage \in BOOLEAN
  /\ InitMeetingLocal
  /\ InitMotionIdle
  /\ InitVoteIdle
  /\ InitElectionIdle
  /\ InitUserIdle
  /\ InitEditIdle
  /\ InitAuxIdle

MeetingAnswer ==
  \E r \in meetCalls :
    \/ FetchMeetingArrives(r)
    \/ UserRolesArrives(r)
    \/ UpdateResume(r)
    \/ NavigateDetailsArrives(r)

Handshake == \E s \in SocketIds : HandshakeCompletes(s)

NextMeeting ==
  \/ RoomMount
  \/ Handshake
  \/ RemoteAddItem
  \/ RemoteNavigate
  \/ DeliverMeetingUpdated
  \/ handleNextItem
  \/ handlePreviousItem
  \/ MeetingAnswer

SpecMeeting == InitMeeting /\ [][NextMeeting]_vars

\* ------------------------------------------- the meeting view and its channel
Reconnecting == \E s \in SocketIds : TransportCloses(s)

ReconnectionAttemptsFail == \E s \in SocketIds : ReconnectFailed(s)

NextMeetingChannel ==
  \/ NextMeeting
  \/ Reconnecting
  \/ ReconnectionAttemptsFail
  \/ TokenExpires
  \/ updateToken

SpecMeetingChannel == InitMeeting /\ [][NextMeetingChannel]_vars

\* ------------------------------------------- KeycloakService, the refresh task
\* this.updateToken(minValidity): the promise it returns.  It resolves with
\* what keycloak.updateToken resolved with; a rejection is caught, logged and
\* turned into a promise that resolves with false.
updateTokenPromise(ok) == IF ok THEN "resolved true" ELSE "resolved false"

\* The callback of setInterval(..., 30000): this.updateToken(60) up to its
\* `await keycloak.updateToken(60)`, whose outcome the identity provider
\* decides.
RefreshTick ==
  /\ \E ok \in BOOLEAN : refreshCalls' = refreshCalls \cup {ok}
  /\ refreshCalls' # refreshCalls
  /\ UNCHANGED <<loginInvoked, channelVars>>
  /\ UNCHANGED <<motionVars, voteVars, electionVars, meetingVars, userVars, editVars,
                 resultVars, authVars, itemVars, roomVars>>

\* this.updateToken(60) settles and the task's `.catch(() => this.login())`
\* runs if the promise was rejected.  A refresh that succeeded leaves a
\* fresh token.
RefreshSettles(ok) ==
  /\ ok \in refreshCalls
  /\ refreshCalls' = refreshCalls \ {ok}
  /\ tokenStale' = IF ok THEN FALSE ELSE tokenStale
  /\ loginInvoked' = IF updateTokenPromise(ok) = "rejected" THEN TRUE ELSE loginInvoked
  /\ UNCHANGED channel
  /\ UNCHANGED <<motionVars, voteVars, electionVars, meetingVars, userVars, editVars,
                 resultVars, authVars, itemVars, roomVars>>

RefreshAnswer == \E ok \in BOOLEAN : RefreshSettles(ok)

\* The room of a signed-in user whose token ages while the task refreshes it.
NextTokenRefresh ==
  \/ NextMeeting
  \/ TokenExpires
  \/ RefreshTick
  \/ RefreshAnswer

SpecTokenRefresh == InitMeeting /\ [][NextTokenRefresh]_vars

\* ------------------------------------------- the meeting's room on the channel
\* The rooms of a connection are kept by the collaborator.  emit('join') on a
\* socket that is not connected is buffered by the socket and sent when its
\* handshake completes; the handlers of 'connect' and 'disconnect' only log.
\* A connection that closes leaves its rooms; whether the collaborator gives
\* them back to the session that reconnects is its own choice.

\* The handshake of a socket completes: a buffered 'join' is sent; nothing is
\* emitted otherwise, and a room the connection had left comes back only if
\* the collaborator restores it.
HandshakeSendsJoin(s) ==
  /\ channel.status[s] = "opening"
  /\ channel' = [channel EXCEPT !.status[s] = "connected"]
  /\ \E restored \in BOOLEAN :
       joinState' = [joinState EXCEPT ![s] =
                       IF @ = "buffered" \/ (@ = "left" /\ restored)
                       THEN "joined" ELSE @]
  /\ UNCHANGED tokenStale
  /\ UNCHANGED <<motionVars, voteVars, electionVars, meetingVars, userVars, editVars,
                 resultVars, authVars, itemVars, tokenVars>>

\* The transport of a connected socket closes: the connection leaves its
\* rooms and the socket starts to reconnect.
TransportDrops(s) ==
  /\ channel.status[s] = "connected"
  /\ channel' = [channel EXCEPT !.status[s] = "opening"]
  /\ joinState' = [joinState EXCEPT ![s] = IF @ = "joined" THEN "left" ELSE @]
  /\ UNCHANGED tokenStale
  /\ UNCHANGED <<motionVars, voteVars, electionVars, meetingVars, userVars, editVars,
                 resultVars, authVars, itemVars, tokenVars>>

\* The connection of this.socket is in the meeting's room.
InRoom == channel.socket # NoSocket /\ joinState[channel.socket] = "joined"

\* The collaborator emits to the room: the handler of a connection in it runs.
DeliverToRoom == \E data \in meetEvents : InRoom /\ onMeetingUpdated(data)

\* The room right after the effect of MeetingRoom has run: the two requests
\* are awaited, connect() and joinMeeting() have made their sockets and the
\* 'join' is buffered on this.socket.
InitMeetingJoined ==
  /\ srvMeeting \in [current_item : {Unset} \cup (0 .. MaxItems - 1), items : 0 .. MaxItems]
  /\ srvMeeting.current_item < srvMeeting.items
  /\ srvManage \in BOOLEAN
  /\ InitAuthIdle
  /\ meetEvents = {}
  /\ meetCalls = RoomEffectCalls(authUser)
  /\ roomMounted = TRUE
  /\ meeting = NoMeeting
  /\ meetLoading = TRUE
  /\ meetError = ""
  /\ roomManagePermission = FALSE
  /\ tokenStale = FALSE
  /\ channel = joinMeeting(connect(NoChannel))
  /\ joinState = [s \in SocketIds |-> IF s = channel.socket THEN "buffered" ELSE "none"]
  /\ InitItemIdle
  /\ InitTokenIdle
  /\ InitResultIdle
  /\ InitMotionIdle
  /\ InitVoteIdle
  /\ InitElectionIdle
  /\ InitUserIdle
  /\ InitEditIdle

HandshakeOfRoom == \E s \in SocketIds : HandshakeSendsJoin(s)

Disconnects == \E s \in SocketIds : TransportDrops(s)

NextMeetingRejoin ==
  \/ HandshakeOfRoom
  \/ Disconnects
  \/ ReconnectionAttemptsFail
  \/ RemoteAddItem
  \/ RemoteNavigate
  \/ DeliverToRoom
  \/ MeetingAnswer

SpecMeetingRejoin == InitMeetingJoined /\ [][NextMeetingRejoin]_vars

\* A viewer's room: another client moves forward through the agenda while
\* the channel may fail for good.
RemoteNext ==
  /\ RemoteNavigate
  /\ srvMeeting'.current_item > srvMeeting.current_item

InitMeetingPull ==
  /\ InitMeeting
  /\ ~srvManage
  /\ srvMeeting.items = MaxItems

NextMeetingPull ==
  \/ RoomMount
  \/ Handshake
  \/ ReconnectionAttemptsFail
  \/ RemoteNext
  \/ DeliverMeetingUpdated
  \/ MeetingAnswer

\* Answers arrive, a handshake that can complete does, and a connected
\* channel delivers.
SpecMeetingPull ==
  /\ InitMeetingPull
  /\ [][NextMeetingPull]_vars
  /\ WF_vars(MeetingAnswer)
  /\ WF_vars(DeliverMeetingUpdated)

\* ------------------------------------------- capabilities of the viewer
\* The room and the motion view of a user who holds any of the roles.
InitCapability ==
  /\ srvMeeting = [current_item |-> 0, items |-> 1]
  /\ srvRoles \in SUBSET {"manage", "vote"}
  /\ srvManage = ("manage" \in srvRoles)
  /\ InitMeetingLocal
  /\ InitMotionIdle
  /\ InitVoteIdle
  /\ InitElectionIdle
  /\ userCalls = {}
  /\ viewUsername = [v \in Views |-> ""]
  /\ hasVotePermission = [v \in Views |-> FALSE]
  /\ InitEditIdle
  /\ InitAuxIdle

CapabilityAnswer ==
  \/ \E r \in meetCalls : FetchMeetingArrives(r) \/ UserRolesArrives(r)
  \/ \E r \in motionCalls : FetchMotionsAnswer(r) \/ CheckForPollAnswer(r)
  \/ UserAnswer

NextCapability ==
  \/ RoomMount
  \/ Mount
  \/ CapabilityAnswer

SpecCapability == InitCapability /\ [][NextCapability]_vars

\* ------------------------------------------- the room and the identity
\* auth.user changes while MeetingRoom is mounted: the cleanup of its effect
\* runs (leaveMeeting, off) and the effect runs again for the new identity.
\* No state is reset.
AuthUserChanges ==
  /\ roomMounted
  /\ \E user \in AuthUsers \ {authUser} :
       /\ authUser' = user
       /\ meetCalls' = meetCalls \cup RoomEffectCalls(user)
  /\ Cardinality(meetCalls') <= MaxMeetCalls
  /\ JoinChannel
  /\ UNCHANGED <<srvMeeting, srvManage, meetEvents, roomMounted, meeting, meetLoading,
                 meetError, roomManagePermission>>
  /\ UNCHANGED <<motionVars, voteVars, electionVars, userVars, editVars, resultVars,
                 extraVars>>

\* A session with or without an identity opens the room of a meeting the
\* user manages.
InitIdentity ==
  /\ srvMeeting = [current_item |-> 0, items |-> 1]
  /\ srvManage = TRUE
  /\ InitMeetingLocal
  /\ InitMotionIdle
  /\ InitVoteIdle
  /\ InitElectionIdle
  /\ InitUserIdle
  /\ InitEditIdle
  /\ InitResultIdle
  /\ InitChannelIdle
  /\ authUser \in AuthUsers
  /\ InitExtraIdle

IdentityAnswer ==
  \E r \in meetCalls : FetchMeetingArrives(r) \/ UserRolesArrives(r)

NextIdentity ==
  \/ RoomMount
  \/ Handshake
  \/ AuthUserChanges
  \/ IdentityAnswer

SpecIdentity == InitIdentity /\ [][NextIdentity]_vars

\* ------------------------------------------- the results of finished polls
InitMotionResult ==
  /\ InitMotionIdle
  /\ InitVoteIdle
  /\ InitElectionIdle
  /\ InitMeetingIdle
  /\ InitUserIdle
  /\ InitEditIdle
  /\ InitAuxIdle

NextMotionResult ==
  \/ SetPollHistory
  \/ RenderRows

SpecMotionResult == InitMotionResult /\ [][NextMotionResult]_vars

\* --- submitting a motion: the form is submitted with whatever text it holds
\* while other participants start the voting session.
InitMotionCreate ==
  /\ srvMotions = [i \in Items |-> IF i = "A" THEN <<Motion(1, "other", "submitted")>>
                                   ELSE <<>>]
  /\ srvSession = [i \in Items |-> NoSession]
  /\ srvPoll = [i \in Items |-> NoPollRec]
  /\ hasManagePermission = FALSE
  /\ InitMotionLocal
  /\ InitVoteIdle
  /\ InitElectionIdle
  /\ InitMeetingIdle
  /\ InitUserIdle
  /\ InitEditIdle
  /\ InitAuxIdle

MotionCreateAnswer ==
  \E r \in motionCalls :
    \/ FetchMotionsAnswer(r)
    \/ CheckForPollAnswer(r)
    \/ CreateMotionAnswer(r)
    \/ RefetchMotionsAnswer(r)

NextMotionCreate ==
  \/ Mount
  \/ RemoteStartVoting
  \/ ServerOpenPoll
  \/ ServerClosePoll
  \/ IntervalFires
  \/ DeliverMotionAdded
  \/ SubmitMotionForm
  \/ MotionCreateAnswer

SpecMotionCreate == InitMotionCreate /\ [][NextMotionCreate]_vars

\* --- the mutating actions of the four views, each view taken once its
\* initial loads have settled: the motion list with the viewer's own motion,
\* the ballot of a poll, the agenda list with an open position, the room of a
\* manager.  One view is followed at a time.
UserResolved(v) ==
  /\ srvRoles = IF srvManage THEN {"manage"} ELSE {}
  /\ userCalls = {}
  /\ viewUsername = [w \in Views |-> IF w = v THEN currentUsername ELSE ""]
  /\ hasVotePermission = [w \in Views |-> FALSE]

InitMotionLoaded ==
  /\ srvMotions = [i \in Items |->
       IF i = "A" THEN <<Motion(1, currentUsername, "submitted")>> ELSE <<>>]
  /\ srvSession = [i \in Items |-> NoSession]
  /\ srvPoll = [i \in Items |-> NoPollRec]
  /\ hasManagePermission = FALSE
  /\ motionEvents = {}
  /\ motionCalls = {}
  /\ mounted = "yes"
  /\ motionItemId = "A"
  /\ motions = srvMotions[motionItemId]
  /\ motionError = ""
  /\ votingSessionState = NoSession
  /\ activePollId = NoPoll
  /\ votingActive = FALSE
  /\ interval = motionItemId
  /\ timeouts = {}
  /\ viaEvent = {}
  /\ dupSeen = FALSE

InitVoteLoaded ==
  /\ srvVoted = {}
  /\ voteCalls = {}
  /\ voteMounted = "yes"
  /\ pollId \in PollIds
  /\ poll = pollId
  /\ voteLoading = FALSE
  /\ voteError = ""
  /\ selectedOption = ""
  /\ rankedOptions = <<>>
  /\ hasVoted = FALSE
  /\ submitting = FALSE
  /\ votedHere = {}
  /\ loadVoted = FALSE

InitElectionLoaded ==
  /\ srvPositions = <<Position(1, Names[1])>>
  /\ srvNominations = [q \in PositionIds |-> NoNominations]
  /\ elEvents = {}
  /\ elCalls = {}
  /\ elMounted = [i \in Insts |-> i = "list"]
  /\ elListeners = {"list"}
  /\ createdPositions = [i \in Insts |-> IF i = "list" THEN srvPositions ELSE <<>>]
  /\ nominations = [i \in Insts |-> [q \in PositionIds |-> NoNominations]]
  /\ elLoading = [i \in Insts |-> FALSE]
  /\ elError = [i \in Insts |-> ""]
  /\ initializingRef = [i \in Insts |-> i = "list"]
  /\ rejectedExisting = [i \in Insts |-> FALSE]

InitMeetingLoaded ==
  /\ srvMeeting \in [current_item : 0 .. MaxItems - 1, items : {MaxItems}]
  /\ srvManage = TRUE
  /\ meetEvents = {}
  /\ meetCalls = {}
  /\ roomMounted = TRUE
  /\ meeting = srvMeeting
  /\ meetLoading = FALSE
  /\ meetError = ""
  /\ roomManagePermission = TRUE

InitMutation ==
  /\ \/ /\ InitMotionLoaded
        /\ InitVoteIdle /\ InitElectionIdle /\ InitMeetingIdle /\ InitChannelIdle
        /\ UserResolved("motion")
     \/ /\ InitVoteLoaded
        /\ InitMotionIdle /\ InitElectionIdle /\ InitMeetingIdle /\ InitChannelIdle
        /\ InitUserIdle
     \/ /\ InitElectionLoaded
        /\ InitMotionIdle /\ InitVoteIdle /\ InitMeetingIdle /\ InitChannelIdle
        /\ UserResolved("list")
     \/ /\ InitMeetingLoaded
        /\ tokenStale = FALSE /\ channel = joinMeeting(connect(NoChannel))
        /\ InitMotionIdle /\ InitVoteIdle /\ InitElectionIdle
        /\ InitUserIdle
  /\ InitEditIdle
  /\ InitResultIdle
  /\ InitAuthIdle
  /\ InitExtraIdle

MutationAnswer ==
  \/ \E r \in motionCalls :
       \/ CreateMotionAnswer(r)
       \/ RefetchMotionsAnswer(r)
       \/ SaveEditAnswer(r)
       \/ RefetchAfterEditAnswer(r)
  \/ \E r \in voteCalls : SubmitVoteResume(r)
  \/ \E r \in elCalls :
       \/ NominationPostResume(r)
       \/ LoadNominationsArrives(r)
       \/ ClosePositionResume(r)
  \/ \E r \in meetCalls :
       \/ UpdateResume(r)
       \/ NavigateDetailsArrives(r)

NextMutation ==
  \/ SubmitMotion
  \/ EditMotion
  \/ SaveEdit
  \/ SelectOption
  \/ RankOption
  \/ SubmitBallot
  \/ Nominate
  \/ AcceptNomination
  \/ ClosePosition
  \/ handleNextItem
  \/ handlePreviousItem
  \/ MutationAnswer

SpecMutation == InitMutation /\ [][NextMutation]_vars

\* --- moving between motion items while answers are awaited.
MotionItemsAnswer ==
  \E r \in motionCalls :
    \/ FetchMotionsAnswer(r)
    \/ CheckForPollAnswer(r)

NextMotionItems ==
  \/ Mount
  \/ ChangeItemAwaiting
  \/ RemoteStartVoting
  \/ ServerOpenPoll
  \/ IntervalFires
  \/ MotionItemsAnswer

SpecMotionItems == InitMotionPoll /\ [][NextMotionItems]_vars

\* --- the election view of the current agenda item while the meeting moves
\* between two election items; the first item has its position.
MountCurrent == ElMount("current")

RemoteCreatePositionForItem == \E item \in ItemIndexes : RemoteCreatePositionFor(item)

DeliverPositionCreatedToCurrent ==
  \E data \in elEvents : onPositionCreated("current", data)

ElectionItemsAnswer ==
  \E r \in elCalls : GetPositionsArrives(r) \/ InitLoadNominationsArrives(r)

NextElectionItems ==
  \/ MountCurrent
  \/ AgendaItemChanges
  \/ RemoteCreatePositionForItem
  \/ RemoteNominate
  \/ DeliverPositionCreatedToCurrent
  \/ ElectionItemsAnswer

SpecElectionItems == InitElectionClose /\ [][NextElectionItems]_vars

\* --- the agenda list's election view while other participants nominate,
\* accept and close and the channel may drop any event: every read succeeds
\* and its answer arrives, the delivery of an event is not promised.
ElectionPullAnswer ==
  \E r \in elCalls :
    \/ GetPositionsResume(r, TRUE)
    \/ InitLoadNominationsResume(r, TRUE)
    \/ LoadNominationsResume(r, TRUE)

NextElectionPull ==
  \/ MountList
  \/ RemoteNominate
  \/ RemoteAccept
  \/ RemoteClosePosition
  \/ DeliverNominationEvent
  \/ DeliverPositionClosed
  \/ ElectionPullAnswer

SpecElectionPull ==
  /\ InitElectionClose
  /\ [][NextElectionPull]_vars
  /\ WF_vars(MountList)
  /\ WF_vars(ElectionPullAnswer)

\* --- waiting for the poll: the view stays on its item while a manager, here
\* or elsewhere, starts voting and the collaborator opens the poll later.  No
\* push event is used.  The interval keeps firing, every answer arrives, and
\* the periodic check succeeds again and again.
CheckForPollSucceeds == \E r \in motionCalls : CheckForPollResume(r, TRUE)

NextMotionWatch ==
  \/ Mount
  \/ RemoteStartVoting
  \/ ServerOpenPoll
  \/ IntervalFires
  \/ handleStartVoting
  \/ TimeoutFires
  \/ MotionPollAnswer

SpecMotionWatch ==
  /\ InitMotionPoll
  /\ [][NextMotionWatch]_vars
  /\ WF_vars(IntervalFires)
  /\ WF_vars(MotionPollAnswer)
  /\ SF_vars(CheckForPollSucceeds)

\* ------------------------------------------------------ properties: motions
\* C1: however motion_added events are duplicated or reordered, the local
\* motion list never holds two entries with one motion_uuid, and the step that
\* handles a motion_added event of the displayed item leaves exactly one entry
\* with the event's motion_uuid.
NoDuplicateMotion == \A u \in Uuids : Count(motions, u) <= 1

MotionAddedOnce ==
  \A data \in motionEvents :
    (handleMotionAdded(data) /\ data.motion_item_id = motionItemId)
      => Count(motions', data.motion.motion_uuid) = 1

C1_OneEntryPerUuid == [][MotionAddedOnce]_vars /\ []NoDuplicateMotion

\* A motion_added event for a motion already in the list has been handled.
C1_Witness == dupSeen /\ Len(motions) >= 1

\* C2: when the answer of getMotions (the initial fetch or the re-fetch after
\* a mutation) is applied, every motion a motion_added or motion_updated event
\* put into the list since the last answer is still in the list, and its text
\* is not taken back from the edited one to the submitted one.
SnapshotKeepsEventMotions ==
  \A r \in motionCalls :
    ((FetchMotionsResume(r, TRUE) \/ RefetchMotionsResume(r, TRUE))
       /\ mounted = "yes" /\ r.item = motionItemId)
      => \A u \in viaEvent :
           /\ Has(motions', u)
           /\ ~(Entry(motions, u).motion = "edited"
                /\ Entry(motions', u).motion = "submitted")

C2_StaleSnapshotKeepsEvents == [][SnapshotKeepsEventMotions]_vars

\* C7: once the view has left a motion item (it unmounted or motionItemId
\* changed), no timer it scheduled while on that item asks the collaborator
\* for that item again: neither the 5 s interval nor the 1 s timer of
\* handleStartVoting.
TimerRequestsOnlyForShownItem ==
  /\ \A i \in Items :
       IntervalTick(i) => (mounted = "yes" /\ motionItemId = i)
  /\ \A t \in timeouts :
       (StartVotingTimeout(t) /\ t.on) => (mounted = "yes" /\ motionItemId = t.item)

C7_NoTimerRequestAfterLeaving == [][TimerRequestsOnlyForShownItem]_vars

\* --------------------------------------------------------- properties: votes
\* C3: after a submitVote of this VoteManager has succeeded for a poll, the
\* ballot is not offered for that poll again and handleSubmitVote issues no
\* further submitVote for it.
NoBallotAfterVote == BallotOffered => pollId \notin votedHere

NoSubmitAfterVote == handleSubmitVote => pollId \notin votedHere

C3_VoteAtMostOnce == []NoBallotAfterVote /\ [][NoSubmitAfterVote]_vars

\* C4: when VoteManager loads a poll the user has already voted on, the load
\* asks the collaborator whether the user has voted as soon as the poll has
\* arrived, and the ballot is never offered for that poll.
ProbeOnLoad ==
  \A r \in voteCalls :
    GetPollResume(r, TRUE) => HasVotedAnswer(r.poll) \in voteCalls'

NoBallotIfVotedBefore == BallotOffered => ~loadVoted

C4_NoBallotOnVotedPoll == [][ProbeOnLoad]_vars /\ []NoBallotIfVotedBefore

\* ----------------------------------------------------- properties: elections
PositionsOfName(name) ==
  {k \in 1 .. Len(srvPositions) : srvPositions[k].position_name = name}

\* C5: entering the election item leaves exactly one Position per configured
\* name at the collaborator, however often and by however many views the item
\* is entered: never two positions of one name, and once every initialization
\* has run to its end and a view shows the item without an error, one
\* position of each name.
NoDuplicatePosition ==
  \A k \in 1 .. Len(Names) : Cardinality(PositionsOfName(Names[k])) <= 1

InitializedItemIsComplete ==
  (elCalls = {} /\ \E i \in Insts : elMounted[i] /\ ~elLoading[i] /\ elError[i] = "")
    => \A k \in 1 .. Len(Names) : Cardinality(PositionsOfName(Names[k])) = 1

C5_OnePositionPerName == NoDuplicatePosition /\ InitializedItemIsComplete

\* C6: an initializer whose create the collaborator rejected as already
\* existing ends, once it has stopped loading, without an error and with every
\* position of the item in its list.
C6_RejectedCreateReloads ==
  \A i \in Insts :
    (elMounted[i] /\ rejectedExisting[i] /\ ~elLoading[i])
      => /\ elError[i] = ""
         /\ \A k \in 1 .. Len(srvPositions) :
              \E j \in 1 .. Len(createdPositions[i]) :
                createdPositions[i][j].position_id = srvPositions[k].position_id

\* C10: handleClosePosition is invoked for a position only while the view
\* knows at least 2 accepted nominations of it, and when its request has
\* succeeded the view's entry of the position has is_open false and the poll_id
\* of the answer.
CloseOnlyWithTwoAccepted ==
  \A i \in Insts, pid \in PositionIds :
    handleClosePosition(i, pid)
      => Cardinality({u \in Users : nominations[i][pid][u] = "accepted"}) >= 2

CloseSuccessClosesLocally ==
  \A r \in elCalls :
    (ClosePositionResume(r) /\ r.res = "ok")
      => \E k \in 1 .. Len(createdPositions'[r.inst]) :
           /\ createdPositions'[r.inst][k].position_id = r.pid
           /\ ~createdPositions'[r.inst][k].is_open
           /\ createdPositions'[r.inst][k].poll_id # NoPoll

C10_CloseNeedsTwoAccepted ==
  [][CloseOnlyWithTwoAccepted /\ CloseSuccessClosesLocally]_vars

\* The view closed a position with exactly 2 accepted nominations and its
\* request has succeeded.
C10_Witness ==
  /\ \A r \in elCalls : r.call # "close"
  /\ elError["list"] = ""
  /\ Cardinality({u \in Users : nominations["list"][1][u] = "accepted"}) = 2
  /\ Len(createdPositions["list"]) = 1
  /\ ~createdPositions["list"][1].is_open
  /\ createdPositions["list"][1].poll_id # NoPoll

\* ------------------------------------------------------ properties: meetings
\* The update requests a step issues.
UpdatesIssued == {c \in meetCalls' \ meetCalls : c.call = "update"}

\* C8: no current_item update request is issued from a session whose roles
\* for the meeting do not include 'manage'.
OnlyManagersNavigate == UpdatesIssued # {} => srvManage

C8_ViewerNeverNavigates == [][OnlyManagersNavigate]_vars

\* C9: every index handleNextItem or handlePreviousItem sends lies in [0, N)
\* of the agenda the view holds: next sends current+1 (an unset current_item
\* counting as -1) only if it is below N, previous sends current-1 only if it
\* is at least 0, and nothing is sent while the agenda has no items.
NavigationInBounds ==
  /\ \A c \in UpdatesIssued : c.index >= 0 /\ c.index < meeting.items
  /\ handleNextItem =>
       \A c \in UpdatesIssued :
         c.index = (IF meeting.current_item = Unset THEN 0 ELSE meeting.current_item + 1)
  /\ handlePreviousItem =>
       \A c \in UpdatesIssued :
         meeting.current_item # Unset /\ c.index = meeting.current_item - 1

C9_NavigationInBounds == [][NavigationInBounds]_vars

\* Previous has been sent from the last item of a full agenda: an update for
\* the index before the last is awaited.
C9_Witness ==
  /\ meeting # NoMeeting /\ meeting.items = MaxItems
  /\ \E c \in meetCalls :
       c.call = "update" /\ c.index = meeting.items - 2 /\ meeting.current_item = meeting.items - 1


\* ------------------------------------------------------------------ C11
\* C11: closePosition is a management control: a session whose
\* hasManagePermission is false never issues a close-position request.
OnlyManagersClose ==
  \A pid \in PositionIds :
    handleClosePosition("list", pid) => roomManagePermission

C11_ViewerNeverCloses == [][OnlyManagersClose]_vars

\* ------------------------------------------------------------------ C12
\* C12: an accept request for a nomination is issued only by a manager or by
\* the nominee: a session that is neither never issues one.
OnlyManagerOrNomineeAccepts ==
  \A pid \in PositionIds, u \in Users :
    handleAcceptNomination("list", pid, u)
      => (roomManagePermission \/ u = currentUsername)

C12_OnlyManagerOrNomineeAccepts == [][OnlyManagerOrNomineeAccepts]_vars

\* ------------------------------------------------------------------ C13
\* C13: a viewer whose roles lack 'vote' is never rendered a VoteManager,
\* neither for the poll of a motion item nor for the poll of a position; a
\* position's VoteManager needs poll_id set and is_open false; where voting
\* is shown to such a viewer, it is the read-only notice.
ListedPositions(i) == {createdPositions[i][k] : k \in 1 .. Len(createdPositions[i])}

NoBallotWithoutVote ==
  "vote" \notin srvRoles =>
    /\ MotionView # "VoteManager"
    /\ (votingActive /\ activePollId # NoPoll) => MotionView = "notice"
    /\ \A i \in Insts : \A p \in ListedPositions(i) :
         /\ PositionView(i, p) # "VoteManager"
         /\ (p.poll_id # NoPoll /\ ~p.is_open) => PositionView(i, p) = "notice"

PositionBallotOnlyWhenClosed ==
  \A i \in Insts : \A p \in ListedPositions(i) :
    PositionView(i, p) = "VoteManager" => (p.poll_id # NoPoll /\ ~p.is_open)

C13_NoBallotWithoutVote == NoBallotWithoutVote /\ PositionBallotOnlyWhenClosed

\* A manager without 'vote' whose roles are resolved sees the notice for the
\* active poll of the motion item and for the closed position.
C13_Witness ==
  /\ srvRoles = {"manage"}
  /\ mounted = "yes" /\ viewUsername["motion"] = currentUsername
  /\ elMounted["list"] /\ viewUsername["list"] = currentUsername
  /\ userCalls = {}
  /\ MotionView = "notice"
  /\ \E p \in ListedPositions("list") : PositionView("list", p) = "notice"

\* ------------------------------------------------------------------ C14
\* C14: a viewer with manage capability has the closePoll control on the
\* loaded poll, before casting a vote (the ballot) and after (the submitted
\* view); a viewer without manage capability never has it.
ClosePollForManager ==
  (voteMounted = "yes" /\ hasManagePermission /\ VoteView \in {"ballot", "submitted"})
    => "closePoll" \in VoteControls(VoteView)

ClosePollNeverForViewer ==
  ~hasManagePermission => "closePoll" \notin VoteControls(VoteView)

C14_ManagerCanClosePoll == ClosePollForManager /\ ClosePollNeverForViewer

\* ------------------------------------------------------------------ C15
\* C15: whenever a motion update request is issued, the motion's owner is
\* the current user and the local state knows no voting session for the item.
UpdateIssued ==
  \E r \in motionCalls' \ motionCalls : r.call = "updateMotion"

UpdateOnlyByOwnerBeforeVoting ==
  \A k \in 1 .. Len(motions) :
    (handleSaveEdit(k) /\ UpdateIssued)
      => (motions[k].owner = currentUsername /\ votingSessionState = NoSession)

C15_UpdateOnlyByOwnerBeforeVoting == [][UpdateOnlyByOwnerBeforeVoting]_vars

\* ------------------------------------------------------------------ C16
\* C16: no start-voting request is sent while the local motion list is
\* empty.
StartVotingIssued ==
  \E r \in motionCalls' \ motionCalls : r.call = "startVoting"

NoStartVotingOnEmptyList == StartVotingIssued => Len(motions) > 0

C16_NoStartVotingOnEmptyList == [][NoStartVotingOnEmptyList]_vars

\* A manager looks at the loaded, empty list of an item without a voting
\* session, and no start-voting request is awaited.
C16_Witness ==
  /\ mounted = "yes" /\ hasManagePermission /\ ShowsMotionList
  /\ motions = <<>> /\ votingSessionState = NoSession
  /\ \A r \in motionCalls : r.call \notin {"getMotions", "startVoting"}

\* ------------------------------------------------------------------ C17
\* C17: the voting-session state MotionManager holds for its item only moves
\* forward, no-session -> in_progress -> completed (or into error), in
\* whatever order the answers of the motion-item fetches arrive.
SessionRank(state) ==
  CASE state = NoSession -> 0
    [] state = "in_progress" -> 1
    [] state = "completed" -> 2
    [] OTHER -> 3

SessionMovesForward ==
  (mounted = "yes" /\ mounted' = "yes" /\ motionItemId' = motionItemId)
    => SessionRank(votingSessionState') >= SessionRank(votingSessionState)

C17_SessionStateMovesForward == [][SessionMovesForward]_vars

\* ------------------------------------------------------------------ C18
\* C18: a position a view shows as closed stays shown as closed for as long
\* as the view lives: no position_created or position_closed event, local
\* close or initialization answer shows it as open again.
ClosedStaysClosed ==
  \A i \in Insts, pid \in PositionIds :
    (ShownClosed(i, pid) /\ elMounted'[i]) => ShownClosed(i, pid)'

C18_ClosedStaysClosed == [][ClosedStaysClosed]_vars

\* The view shows a position as closed while a position_created event for
\* it can still be delivered.
C18_Witness ==
  \E pid \in PositionIds :
    /\ ShownClosed("list", pid)
    /\ \E data \in elEvents :
         data.type = "position_created" /\ data.position.position_id = pid

\* ------------------------------------------------------------------------ C19
EmptyBallot ==
  \/ pollType(poll) = "single" /\ selectedOption = ""
  \/ pollType(poll) = "ranked" /\ rankedOptions = <<>>

EmptyBallotRejected ==
  (handleSubmitVote /\ EmptyBallot) =>
    /\ voteCalls' = voteCalls
    /\ srvVoted' = srvVoted
    /\ submitting' = submitting
    /\ voteError' = (IF pollType(poll) = "single" THEN "Please select an option"
                     ELSE "Please rank at least one option")

\* C19: handleSubmitVote run on an empty ballot (a single-choice poll without
\* a selection, a ranked poll with an empty ranking) sends no submitVote
\* request, records no vote and sets the error message of its poll type.
C19_EmptyBallotRejected == [][EmptyBallotRejected]_vars

\* The ranked ballot after a rejected submission: the message is shown, the
\* ranking is empty and no request is in flight.
C19_Witness ==
  /\ BallotOffered /\ pollType(poll) = "ranked"
  /\ rankedOptions = <<>>
  /\ voteError = "Please rank at least one option"
  /\ voteCalls = {}
  /\ srvVoted = {}

\* ------------------------------------------------------------------------ C20
Ranked(seq) == {seq[k] : k \in 1 .. Len(seq)}

RankingWellFormed ==
  (poll # NoPoll /\ pollType(poll) = "ranked") =>
    /\ \A j, k \in 1 .. Len(rankedOptions) : j # k => rankedOptions[j] # rankedOptions[k]
    /\ Ranked(rankedOptions) \subseteq pollOptions(poll)

SelectAppends ==
  \A option \in pollOptions(poll) :
    (handleRankedVote(option) /\ option \notin Ranked(rankedOptions)) =>
      /\ Len(rankedOptions') = Len(rankedOptions) + 1
      /\ rankedOptions'[Len(rankedOptions')] = option
      /\ \A k \in 1 .. Len(rankedOptions) : rankedOptions'[k] = rankedOptions[k]

ReselectRemoves ==
  \A option \in pollOptions(poll) :
    (handleRankedVote(option) /\ option \in Ranked(rankedOptions)) =>
      \E at \in 1 .. Len(rankedOptions) :
        /\ rankedOptions[at] = option
        /\ Len(rankedOptions') = Len(rankedOptions) - 1
        /\ \A k \in 1 .. Len(rankedOptions') :
             rankedOptions'[k] = IF k < at THEN rankedOptions[k] ELSE rankedOptions[k + 1]

SwappedAt(k) ==
  /\ k \in 1 .. Len(rankedOptions) - 1
  /\ Len(rankedOptions') = Len(rankedOptions)
  /\ rankedOptions'[k] = rankedOptions[k + 1]
  /\ rankedOptions'[k + 1] = rankedOptions[k]
  /\ \A j \in 1 .. Len(rankedOptions) : j \notin {k, k + 1} => rankedOptions'[j] = rankedOptions[j]

MoveSwapsAdjacent ==
  \A index \in 1 .. Len(rankedOptions) :
    /\ moveRankUp(index) =>
         IF index = 1 THEN rankedOptions' = rankedOptions ELSE SwappedAt(index - 1)
    /\ moveRankDown(index) =>
         IF index = Len(rankedOptions) THEN rankedOptions' = rankedOptions
         ELSE SwappedAt(index)

\* C20: on a ranked poll the ranking always is a duplicate-free sequence of
\* options of the poll; selecting an unranked option appends it, re-selecting
\* a ranked option removes it and keeps the order of the others, and a move
\* swaps two adjacent entries and leaves the others in place (the first entry
\* does not move up, the last does not move down).
C20_RankingIsPartialPermutation ==
  []RankingWellFormed /\ [][SelectAppends /\ ReselectRemoves /\ MoveSwapsAdjacent]_vars

\* A full ranking in an order other than the order of selection is on the
\* ballot.
C20_Witness ==
  /\ BallotOffered /\ pollType(poll) = "ranked"
  /\ Len(rankedOptions) = Cardinality(pollOptions(poll))
  /\ rankedOptions[1] = "abstain" /\ rankedOptions[3] = "yes"


\* ------------------------------------------------------------------------ C21
YesOf(record) == IF "yes" \in DOMAIN record.results THEN record.results["yes"] ELSE 0

NoOf(record) == IF "no" \in DOMAIN record.results THEN record.results["no"] ELSE 0

\* C21: a motion with a poll-history record is shown as passed exactly when
\* its 'yes' tally is strictly greater than its 'no' tally, a missing tally
\* counting as 0: a tie is shown as failed and abstentions play no part.
C21_PassedIffMoreYesThanNo ==
  \A k \in 1 .. Len(pollHistory) :
    LET record == pollHistory[k] IN
      motionResult[record.motion_uuid] # "" =>
        (motionResult[record.motion_uuid] = "passed" <=> YesOf(record) > NoOf(record))

\* A tie of two against two with one abstention is shown as failed.
C21_Witness ==
  /\ Len(pollHistory) = 1
  /\ pollHistory[1].results = [o \in Tallies |-> IF o = "abstain" THEN 1 ELSE 2]
  /\ motionResult[pollHistory[1].motion_uuid] = "failed"

\* ------------------------------------------------------------------------ C22
LeftViewHasNoHandlers == \A i \in Insts : ~elMounted[i] => i \notin elListeners

OthersStayRegistered ==
  \A i \in Insts : (i \in elListeners /\ elMounted'[i]) => i \in elListeners'

\* C22: a view that has left has none of its handlers registered on the
\* channel, and the handlers of a view that stays mounted stay registered
\* when another view of the channel leaves.
C22_LeaveDeregistersOwnHandlersOnly ==
  []LeftViewHasNoHandlers /\ [][OthersStayRegistered]_vars

\* ------------------------------------------------------------------------ C23
\* C23: however often connect() is called, directly or through joinMeeting,
\* the channel service has at most one socket open or opening.
C23_SingleConnection == Cardinality(LiveSockets(channel)) <= 1

\* ------------------------------------------------------------------------ C24
\* C24: no socket of the channel starts its handshake with a stale access
\* token.
C24_NoStaleTokenInHandshake == \A s \in SocketIds : channel.auth[s] # "stale"

\* ------------------------------------------------------------------------ C25
ChannelFailed ==
  channel.socket # NoSocket /\ channel.status[channel.socket] = "failed"

RoomShowsMeeting == roomMounted /\ ~meetLoading /\ meetError = "" /\ meeting # NoMeeting

\* C25: once the meeting channel has failed for good, a room that shows the
\* meeting still comes to show the current_item the collaborator holds.
C25_PullOnlyCatchesUp ==
  (ChannelFailed /\ RoomShowsMeeting) ~> (meeting.current_item = srvMeeting.current_item)

\* ------------------------------------------------------------------------ C26
ManageFailsClosed ==
  \A r \in meetCalls :
    UserRolesResume(r, FALSE) => (~roomManagePermission' /\ meetError' = meetError)

VoteFailsClosed ==
  \A c \in userCalls :
    (RolesResume(c, FALSE) /\ ViewMounted(c.view)) =>
      (~hasVotePermission'[c.view] /\ motionError' = motionError /\ meetError' = meetError)

\* C26: when a role lookup fails, the view that made it holds no capability
\* afterwards (no manage for the room, no vote for the motion view), and the
\* failure sets no error of the meeting view.
C26_RoleLookupFailsClosed == [][ManageFailsClosed /\ VoteFailsClosed]_vars

\* A user who holds manage and vote ends with neither, every request settled
\* and the room showing the meeting without an error.
C26_Witness ==
  /\ srvRoles = {"manage", "vote"}
  /\ roomMounted /\ ~meetLoading /\ meetError = "" /\ meeting # NoMeeting
  /\ meetCalls = {} /\ userCalls = {}
  /\ mounted = "yes" /\ viewUsername["motion"] = currentUsername
  /\ ~roomManagePermission
  /\ ~hasVotePermission["motion"]

\* ------------------------------------------------------------------------ C27
RoleRequestsSettled == roomMounted /\ meetCalls = {}

\* C27: once every request of the room has settled, the room holds manage
\* only if the current identity holds 'manage' for the meeting, and never
\* without an identity: no capability of a previous identity is kept.
C27_NoCapabilityOfPreviousIdentity ==
  RoleRequestsSettled => (roomManagePermission => HoldsManage(authUser))

\* ------------------------------------------------------------------------ C28
CreateMotionRequested ==
  \E r \in motionCalls' \ motionCalls : r.call = "createMotion"

BlankMotionText(text) == text \in {"", "  "}

BlankMotionRejected ==
  (\E text \in NewMotionTexts : BlankMotionText(text) /\ handleCreateMotion(text)) =>
    /\ motionCalls' = motionCalls
    /\ srvMotions' = srvMotions
    /\ motionEvents' = motionEvents
    /\ motionError' = "Please enter motion text"

\* C28: a createMotion request is issued only while the view knows of no
\* voting session for the item, and submitting a text that is blank after
\* trimming issues no request, creates nothing and sets the error message.
C28_NewMotionOnlyWithoutSession ==
  [][(CreateMotionRequested => votingSessionState = NoSession) /\ BlankMotionRejected]_vars

C28_Witness ==
  /\ ShowsMotionList
  /\ votingSessionState = "in_progress"
  /\ motionError = "Please enter motion text"
  /\ \E k \in 1 .. Len(srvMotions[motionItemId]) :
       srvMotions[motionItemId][k].owner = currentUsername
  /\ motionCalls = {}

\* ------------------------------------------------------------------------ C29
\* The answers of mutating calls that this step consumes and that report a
\* failure.
FailedMotionMutations ==
  {r \in motionCalls \ motionCalls' : r.call \in {"createMotion", "updateMotion"} /\ ~r.ok}

FailedElectionMutations ==
  {r \in elCalls \ elCalls' : r.call \in {"nominate", "accept", "close"} /\ r.res = "error"}

FailedVoteMutations ==
  {r \in voteCalls \ voteCalls' : r.call = "submitVote" /\ ~r.ok}

FailedMeetingMutations ==
  {r \in meetCalls \ meetCalls' : r.call = "update" /\ ~r.ok}

\* A mutating call is issued by this step.
MutationIssued ==
  \/ \E r \in motionCalls' \ motionCalls : r.call \in {"createMotion", "updateMotion"}
  \/ \E r \in elCalls' \ elCalls : r.call \in {"nominate", "accept", "close"}
  \/ \E r \in voteCalls' \ voteCalls : r.call = "submitVote"
  \/ \E r \in meetCalls' \ meetCalls : r.call = "update"

EntitiesUnchanged ==
  /\ motions' = motions
  /\ createdPositions' = createdPositions
  /\ nominations' = nominations
  /\ meeting' = meeting
  /\ hasVoted' = hasVoted

FailedMutationNotApplied ==
  /\ MutationIssued => EntitiesUnchanged
  /\ FailedMotionMutations # {} => (EntitiesUnchanged /\ motionError' # "")
  /\ \A r \in FailedElectionMutations : EntitiesUnchanged /\ elError'[r.inst] # ""
  /\ FailedVoteMutations # {} => (EntitiesUnchanged /\ voteError' # "")
  /\ FailedMeetingMutations # {} => (EntitiesUnchanged /\ meetError' # "")

\* C29: the step that issues a mutating call (create or update motion,
\* nominate, accept nomination, close position, submit vote, next/previous)
\* and the step that handles its failure leave motions, positions,
\* nominations, meeting and hasVoted as they were, and the failure sets the
\* view's error message.
C29_FailedMutationNotApplied == [][FailedMutationNotApplied]_vars

C29_Witness ==
  /\ elError["list"] = "Failed to close position"
  /\ elCalls = {}
  /\ acceptedCount("list", 1) = 2
  /\ ShowsOpen("list", 1)

\* ------------------------------------------------------------------------ C30
\* The room holds the collaborator's current meeting, which a meeting_updated
\* event announced.
HoldsAnnouncedMeeting == meeting = srvMeeting /\ srvMeeting \in meetEvents

\* This step handles the answer of a getDetails request.
DetailsAnswerHandled ==
  \E r \in meetCalls \ meetCalls' : r.call = "getDetails"

\* C30: once the room holds the meeting that a meeting_updated event
\* announced and that is still the collaborator's current one, the answer of
\* a getDetails request (produced no later than that event) does not replace
\* it: current_item does not go back to an older value.
C30_CurrentItemNeverRegresses ==
  [][(HoldsAnnouncedMeeting /\ DetailsAnswerHandled) =>
       meeting'.current_item = meeting.current_item]_vars

\* ------------------------------------------------------------------------ C31
\* This step handles the answer of a request that was issued for another
\* motion item than the one the view shows.
StaleItemAnswerHandled ==
  /\ mounted = "yes"
  /\ \E r \in motionCalls \ motionCalls' : r.item # motionItemId

\* C31: an answer to a request issued for the motion item the view has left
\* (the list fetch, the periodic check, a re-fetch after a mutation) changes
\* neither the motions nor the poll id, the voting flag or the session state
\* the view shows for its present item.
C31_NoStaleAnswerAcrossItems ==
  [][StaleItemAnswerHandled =>
       /\ motions' = motions
       /\ activePollId' = activePollId
       /\ votingActive' = votingActive
       /\ votingSessionState' = votingSessionState]_vars

\* ------------------------------------------------------------------------ C32
\* The instance of the current agenda item has finished loading.
CurrentSettled ==
  /\ elMounted["current"] /\ ~elLoading["current"]
  /\ \A r \in elCalls : r.inst # "current"

\* C32: once the ElectionManager of the current agenda item has settled,
\* every position it holds was created for the agenda item it shows: neither
\* the positions of the item it showed before nor a position that a
\* position_created event announced for another item of the meeting.
C32_PositionsBelongToShownItem ==
  CurrentSettled =>
    \A k \in 1 .. Len(createdPositions["current"]) :
      IsOfItem(createdPositions["current"][k], agendaItemIndex)

\* ------------------------------------------------------------------------ C33
\* The agenda list's election view shows its positions.
ListShown == elMounted["list"] /\ ~elLoading["list"] /\ elError["list"] = ""

\* What the view holds is what the collaborator holds.
ListMatchesCollaborator ==
  /\ createdPositions["list"] = srvPositions
  /\ \A k \in 1 .. Len(srvPositions) :
       nominations["list"][srvPositions[k].position_id] =
         srvNominations[srvPositions[k].position_id]

\* C33: an election view that stays on its item comes to hold the positions
\* and nominations the collaborator holds, even when position_closed,
\* nomination_added or nomination_accepted events are lost.
C33_MissedEventsAreCorrected == ListShown ~> ListMatchesCollaborator

\* ------------------------------------------------------------------------ C34
\* The collaborator reports an open poll for the item the view is on.
PollOpenForShownItem ==
  mounted = "yes" /\ srvPoll[motionItemId].poll_state = "open"

\* The view holds that poll's id and has switched to voting.
HoldsOpenPoll ==
  /\ votingActive
  /\ activePollId = srvPoll[motionItemId].poll_uuid
  /\ activePollId # NoPoll

\* C34: once the collaborator reports an open poll for the item the view is
\* on, the view comes to hold that poll's id and to show the voting, by its
\* periodic check alone.
C34_PollingFindsThePoll == PollOpenForShownItem ~> HoldsOpenPoll

C34_Witness ==
  /\ HoldsOpenPoll
  /\ mounted = "yes"
  /\ motionEvents = {}
  /\ timeouts = {}
  /\ motionCalls = {}
  /\ ~hasManagePermission

\* --- C35 -------------------------------------------------------------------
\* fetchPoll for the pollId given has ended and no answer is awaited.
PollLoadEnded == voteMounted = "yes" /\ voteCalls = {} /\ ~voteLoading

\* Once the load has ended, hasVoted tells of a vote on the poll given.
HasVotedOfGivenPoll == (PollLoadEnded /\ hasVoted) => pollId \in srvVoted

\* This step sends a ballot to the collaborator.
BallotSent == \E r \in voteCalls' \ voteCalls : r.call = "submitVote"

\* A ballot sent was filled in on the poll it is sent to.
BallotOfGivenPoll == BallotSent => poll = pollId

\* C35: ballot state belongs to one poll.  When a mounted VoteManager is given
\* another pollId, hasVoted and the ballot used for the new poll come from the
\* new poll only: a vote cast on the previous poll does not block voting on the
\* new one, and the ballot of the previous poll is not sent to the new one.
C35_BallotStateOfOnePoll == []HasVotedOfGivenPoll /\ [][BallotOfGivenPoll]_vars

\* --- C36 -------------------------------------------------------------------
\* The view's channel is connected, for the first time or again.
ViewConnected == roomMounted /\ ChannelUp

\* C36: room membership survives a transient disconnect.  Whenever the channel
\* of a mounted view is connected, after its first handshake as after a
\* reconnection within the retry budget, its connection is in the view's room,
\* so that what is emitted to the room reaches the view's handler.
C36_JoinedWheneverConnected == ViewConnected => InRoom

\* --- C37 -------------------------------------------------------------------
\* This step is the catch of handleNextItem or handlePreviousItem: the update
\* or the getDetails after it failed and the error is set.
NavigationFails ==
  /\ \E r \in meetCalls \ meetCalls' :
       r.call = "update" \/ (r.call = "getDetails" /\ r.cont = "navigate")
  /\ meetError' # meetError

\* After a failed request the room still shows the agenda with its controls.
FailedNavigationKeepsRoom == NavigationFails => ShowsNavigation'

\* C37: a failed next/previous request does not take down the meeting view:
\* after the failure the agenda, the current item and the navigation controls
\* remain available, so that the manager can retry.
C37_FailedNavigationKeepsRoom == [][FailedNavigationKeepsRoom]_vars

\* --- C38 -------------------------------------------------------------------
\* This step settles a token update of the refresh task that failed.
RefreshFails == FALSE \in refreshCalls \ refreshCalls'

\* A failed update of the refresh task ends in a call of login().
FailedRefreshInvokesLogin == RefreshFails => loginInvoked'

\* C38: if the periodic token refresh fails, the user is redirected to login:
\* whenever the token update of the 30-second refresh task fails,
\* KeycloakService.login() is invoked.
C38_FailedRefreshRedirectsToLogin == [][FailedRefreshInvokesLogin]_vars

====
